---- MODULE Spec2Model ----
(***************************************************************************)
(* Model of the shiboken signature module: the Signature Store (arg_dict), *)
(* the owner / name-index map (map_dict), the lazy build of the PropsDict  *)
(* of a type key and the lazy build of the name index of a type.           *)
(*                                                                         *)
(* Python strings are sequences of one-character strings, so that the      *)
(* snake-case transform and the newline split work on characters.  Keys of *)
(* the two process-wide dicts are flat sequences of characters (PyStr,     *)
(* PyTuple2), so that keys of different shapes compare without error.      *)
(***************************************************************************)
EXTENDS Integers, Sequences, FiniteSets, TLC

VARIABLES
    arg_dict,        \* pyside_globals->arg_dict: type key -> raw blob | PropsDict
    map_dict,        \* pyside_globals->map_dict: type key -> owner, name key -> func
    empty_dict,      \* the static empty_dict of signature.cpp: "nullptr" | "dict"
    act,             \* per activation: its position in TypeKey_to_PropsDict /
                     \* PySide_BuildSignatureProps and the locals of that call
    last,            \* per type key: what the last finished propsFor call for it
                     \* returned, forgotten when the key is registered again
    regRet,          \* return value and error state of the last registration call
    tp_dict,         \* per type: its attribute namespace (PepType_GetDict)
    nkfRet,          \* what the last name_key_to_func call returned
    nbuilt,          \* per type: whether build_name_key_to_func ran for it
                     \* "never", "once" or "again" (more than once)
    sigRet,          \* what the last signature query returned
    probe,           \* the argument and the results of a function applied on
                     \* its own (GetTypeKey, GetClassOrModOf,
                     \* insert_snake_case_variants)
    fatal,           \* TRUE once Py_FatalError has ended the process
    sel_dict,        \* per type: the namespace another layer has put in the
                     \* place of tp_dict (NoDict: none); it keeps the
                     \* original as its orig_dict
    doc_descr,       \* per type: the __doc__ descriptor add_more_getsets
                     \* found in the namespace and saved (*doc_descr)
    getsets_done,    \* the (type, getset table) pairs add_more_getsets has
                     \* returned for
    heap,            \* the Property objects: per object its PySidePropertyPrivate
    propRet,         \* the last call on a Property: what it returned, the
                     \* error it set and the calls of Python callables it made
    slot_data,       \* per Slot object: its SlotData (or none) and how often
                     \* it has been applied
    slot_list,       \* per callable: its slot signature list attribute
    slotRet,         \* what the last call on a Slot object returned
    imp              \* per activation: its position in feature_import, the
                     \* calls made so far and what the last call returned

\* The state of the patcher, of the properties and of the slots.
patchVars == <<sel_dict, doc_descr, getsets_done>>

propVars == <<heap, propRet>>

slotVars == <<slot_data, slot_list, slotRet>>

importVars == <<imp>>

otherVars == <<patchVars, propVars, slotVars, importVars>>

vars == <<arg_dict, map_dict, empty_dict, act, last,
          regRet, tp_dict, nkfRet, nbuilt, sigRet, probe, fatal, sel_dict, doc_descr, getsets_done,
          heap, propRet, slot_data, slot_list, slotRet, imp>>

-----------------------------------------------------------------------------
(* Characters and strings *)

NL == "\n"

UpperChars == {"T"}

ToLower(c) == IF c = "T" THEN "t" ELSE c

\* String::getSnakeCaseName(name, lower = true): camelCase -> snake_case,
\* every upper-case character X becomes '_' followed by lower(X).
RECURSIVE getSnakeCaseName(_)
getSnakeCaseName(name) ==
    IF name = <<>> THEN <<>>
    ELSE LET c == Head(name)
         IN  (IF c \in UpperChars THEN <<"_", ToLower(c)>> ELSE <<c>>)
                 \o getSnakeCaseName(Tail(name))

\* A Python str / a Python 2-tuple as a dict key (flat, injective encoding).
PyStr(s) == <<"'">> \o s \o <<"'">>

PyTuple2(a, b) == <<"(">> \o a \o <<",">> \o b \o <<")">>

\* nullptr as a key / the outcome of Py_FatalError.
NullKey == <<>>

FatalKey == <<"FATAL">>

\* An attribute the object does not have (PyObject_GetAttr returns nullptr).
NoAttr == <<"<none>">>

-----------------------------------------------------------------------------
(* The owner entities: classes and other objects handed to registration *)

\* "W", "V": generated classes of module m.  "anon": an object without any
\* identity attribute.  "bad": an object with __module__ but no __qualname__.
Owners == {"W", "V", "anon", "bad"}

\* More entities GetTypeKey can be given.  "mod": the module m.  "N": a class
\* nested in W.  "W2": another class object with the attributes of W.  "U":
\* one more generated class of module m.  "G": a class of module m that has
\* the name of a function of the module.  "Q": a class of module m whose
\* namespace lacks one of its methods.
Entities == Owners \cup {"mod", "N", "W2", "U", "G", "Q"}

Attr_module(ob) ==
    CASE ob = "W" -> <<"m">>
      [] ob = "V" -> <<"m">>
      [] ob = "bad" -> <<"m">>
      [] ob = "N" -> <<"m">>
      [] ob = "W2" -> <<"m">>
      [] ob = "U" -> <<"m">>
      [] ob = "G" -> <<"m">>
      [] ob = "Q" -> <<"m">>
      [] OTHER -> NoAttr

Attr_qualname(ob) ==
    CASE ob = "W" -> <<"W">>
      [] ob = "V" -> <<"V">>
      [] ob = "N" -> <<"W", ".", "N">>
      [] ob = "W2" -> <<"W">>
      [] ob = "U" -> <<"U">>
      [] ob = "G" -> <<"g">>
      [] ob = "Q" -> <<"Q">>
      [] OTHER -> NoAttr

Attr_name(ob) ==
    CASE ob = "W" -> <<"W">>
      [] ob = "V" -> <<"V">>
      [] ob = "bad" -> <<"b">>
      [] ob = "mod" -> <<"m">>
      [] ob = "N" -> <<"N">>
      [] ob = "W2" -> <<"W">>
      [] ob = "U" -> <<"U">>
      [] ob = "G" -> <<"g">>
      [] ob = "Q" -> <<"Q">>
      [] OTHER -> NoAttr

GetTypeKey_name(ob) ==
    IF Attr_module(ob) = NoAttr
    THEN IF Attr_name(ob) = NoAttr THEN NullKey ELSE PyStr(Attr_name(ob))
    ELSE IF Attr_qualname(ob) = NoAttr THEN FatalKey
         ELSE PyTuple2(PyStr(Attr_module(ob)), PyStr(Attr_name(ob)))

\* GetTypeKey: (module, qualname), or the plain name when there is no
\* __module__, nullptr when there is no name either, fatal without __qualname__.
GetTypeKey(ob) ==
    IF Attr_module(ob) = NoAttr
    THEN IF Attr_name(ob) = NoAttr THEN NullKey ELSE PyStr(Attr_name(ob))
    ELSE IF Attr_qualname(ob) = NoAttr THEN FatalKey
         ELSE PyTuple2(PyStr(Attr_module(ob)), PyStr(Attr_qualname(ob)))

TypeKeys == {GetTypeKey(ob) : ob \in Owners} \ {NullKey, FatalKey}

-----------------------------------------------------------------------------
(* Ordered dicts (insertion order, as PyDict_Next walks them) *)

DictKeys(d) == {d[i].key : i \in 1..Len(d)}

DictHas(d, k) == \E i \in 1..Len(d) : d[i].key = k

DictGet(d, k) == d[CHOOSE i \in 1..Len(d) : d[i].key = k].val

\* PyDict_SetItem: replace the value of an existing key in place, else append.
DictSet(d, k, v) ==
    IF DictHas(d, k)
    THEN [i \in 1..Len(d) |-> IF d[i].key = k THEN [key |-> k, val |-> v] ELSE d[i]]
    ELSE Append(d, [key |-> k, val |-> v])

PyDict_Merge0_all(a, b) == a \o b

RECURSIVE PyDict_Merge0_override(_, _)
PyDict_Merge0_override(a, b) ==
    IF b = <<>> THEN a
    ELSE PyDict_Merge0_override(DictSet(a, Head(b).key, Head(b).val), Tail(b))

\* PyDict_Merge(a, b, override = 0): keys of b that a lacks are added.
RECURSIVE PyDict_Merge0(_, _)
PyDict_Merge0(a, b) ==
    IF b = <<>> THEN a
    ELSE PyDict_Merge0(IF DictHas(a, Head(b).key) THEN a ELSE Append(a, Head(b)),
                       Tail(b))

-----------------------------------------------------------------------------
(* Per-member records of a PropsDict *)

\* A single record has a name and a signature; an overload family has a
\* "multi" list of such records and no name of its own.  cached: the keys
\* under which _GetSignature_Cached has stored a signature object in it.
\* obj is the identity of the record (a dict object), sub the identity of
\* the object it holds: the parsed parameter descriptors of a single record,
\* the list of an overload family.
SingleRec(name, sig) ==
    [name |-> name, sig |-> sig, isMulti |-> FALSE, multi |-> <<>>, cached |-> {},
     obj |-> <<"rec">> \o name \o sig, sub |-> <<"params">> \o name \o sig]

MultiRec(list) ==
    [name |-> NoAttr, sig |-> <<>>, isMulti |-> TRUE, multi |-> list, cached |-> {},
     obj |-> <<"family">> \o list[1].obj, sub |-> <<"list">> \o list[1].obj]

\* PyDict_Copy: another dict object that holds the same values.
PyDict_Copy(value) == [value EXCEPT !.obj = <<"copy">> \o @]

\* _build_new_entry: copy of value, renamed (every record of the multi list,
\* in a new list, when there is one, else the record itself).
_build_new_entry(new_name, value) ==
    IF value.isMulti
    THEN [PyDict_Copy(value) EXCEPT
            !.sub = <<"copy">> \o @,
            !.multi = [i \in 1..Len(value.multi) |->
                          [PyDict_Copy(value.multi[i]) EXCEPT !.name = new_name]]]
    ELSE [PyDict_Copy(value) EXCEPT !.name = new_name]

RECURSIVE SnakeDictOf(_, _)
SnakeDictOf(rest, snake_dict) ==
    IF rest = <<>> THEN snake_dict
    ELSE LET name == getSnakeCaseName(Head(rest).key)
         IN  SnakeDictOf(Tail(rest),
                         DictSet(snake_dict, name, _build_new_entry(name, Head(rest).val)))

insert_snake_case_variants_skip(dict) == dict

\* insert_snake_case_variants: build snake_dict, merge it without override.
insert_snake_case_variants(dict) == PyDict_Merge0(dict, SnakeDictOf(dict, <<>>))

-----------------------------------------------------------------------------
(* Signature blobs handed to registration *)

\* const char *signatures[]: one string per overload, "name:sig".
\* "?" stands for a line on which the parser returns no result and no error,
\* "!" for a line on which it raises.
SignatureArrays ==
    { << <<"d", "T", ":", "1">>, <<"r", ":", "1">>, <<"r", ":", "2">> >>,
      << <<"?">> >> }

SomeArray == << <<"d", "T", ":", "1">>, <<"r", ":", "1">>, <<"r", ":", "2">> >>

\* (const uint8_t *signatures, size_t size): the compressed bytes, given by
\* their size, whether the stream is intact, and what it decompresses to.
ByteBlobs ==
    { [size |-> 0, corrupt |-> FALSE, payload |-> <<>>],
      [size |-> 9, corrupt |-> TRUE,  payload |-> <<>>],
      [size |-> 9, corrupt |-> FALSE, payload |-> <<"d", "T", ":", "1", NL, "r">>],
      [size |-> 9, corrupt |-> FALSE, payload |-> <<"!", NL>>] }

EmptyBlob == [size |-> 0, corrupt |-> FALSE, payload |-> <<>>]

\* The registration calls made: every blob for class W, one for the others.
StringRegistrations ==
    {<<"W", signatures>> : signatures \in SignatureArrays}
        \cup {<<"V", SomeArray>>, <<"anon", SomeArray>>}

ByteRegistrations ==
    {<<"W", b>> : b \in ByteBlobs} \cup {<<"anon", EmptyBlob>>, <<"bad", EmptyBlob>>}

\* The values stored in arg_dict (one record shape for all three kinds).
AddrEntry(lines) ==
    [tag |-> "addr", lines |-> lines, size |-> 0, corrupt |-> FALSE,
     payload |-> <<>>, static |-> FALSE, entries |-> <<>>]

TupleEntry(b) ==
    [tag |-> "tuple", lines |-> <<>>, size |-> b.size, corrupt |-> b.corrupt,
     payload |-> b.payload, static |-> FALSE, entries |-> <<>>]

\* A dict made by the parser.
DictEntry(entries) ==
    [tag |-> "dict", lines |-> <<>>, size |-> 0, corrupt |-> FALSE,
     payload |-> <<>>, static |-> FALSE, entries |-> entries]

\* The process-wide static empty_dict.
EmptyDictEntry == [DictEntry(<<>>) EXCEPT !.static = TRUE]

\* What a call returned: a PropsDict, or nullptr with the pending error;
\* src is the raw entry the call built from (NoBuild when it built nothing).
NoBuild == EmptyDictEntry

Returned(k, entry, src) ==
    [key |-> k, null |-> FALSE, err |-> "none", dict |-> entry, src |-> src]

ReturnedNull(k, err, src) ==
    [key |-> k, null |-> TRUE, err |-> err, dict |-> EmptyDictEntry, src |-> src]

NoResult ==
    [key |-> NullKey, null |-> TRUE, err |-> "none", dict |-> EmptyDictEntry,
     src |-> NoBuild]

-----------------------------------------------------------------------------
(* Decompression and the newline split *)

byteExpand_fallback(b) == [ok |-> TRUE, data |-> IF b.corrupt THEN <<>> ELSE b.payload]

\* byteExpand: zlib.decompress(packed); nullptr (ValueError) when it raises.
\* zlib raises on a damaged stream and on a zero-length stream.
byteExpand(b) ==
    IF b.corrupt \/ b.size = 0
    THEN [ok |-> FALSE, data |-> <<>>]
    ELSE [ok |-> TRUE, data |-> b.payload]

\* The loop of bytesToStrings: one string per newline, the bytes before it;
\* what follows the last newline is not part of any string.
RECURSIVE SplitLines(_, _)
SplitLines(data, line) ==
    IF data = <<>> THEN <<>>
    ELSE IF Head(data) = NL
         THEN <<line>> \o SplitLines(Tail(data), <<>>)
         ELSE SplitLines(Tail(data), Append(line, Head(data)))

NeedsExpand_always(b) == TRUE

\* bytesToStrings: "size > 0 ? byteExpand(packed) : PyBytes_FromStringAndSize(chars, 0)".
NeedsExpand(b) == b.size > 0

-----------------------------------------------------------------------------
(* The delegated parser, pyside_type_init_func *)

Contains(line, c) == \E i \in 1..Len(line) : line[i] = c

ColonAt(line) == CHOOSE i \in 1..Len(line) : line[i] = ":"

LineName(line) == SubSeq(line, 1, ColonAt(line) - 1)

LineSig(line) == SubSeq(line, ColonAt(line) + 1, Len(line))

\* One more signature line for a member: the first makes a single record,
\* further ones turn it into an overload family.
AddLine(dict, line) ==
    LET name == LineName(line)
        rec  == SingleRec(name, LineSig(line))
    IN  IF ~DictHas(dict, name) THEN DictSet(dict, name, rec)
        ELSE LET old == DictGet(dict, name)
             IN  DictSet(dict, name,
                         MultiRec(IF old.isMulti THEN Append(old.multi, rec)
                                  ELSE <<old, rec>>))

RECURSIVE ParseLines(_, _)
ParseLines(lines, dict) ==
    IF lines = <<>> THEN dict
    ELSE ParseLines(Tail(lines), AddLine(dict, Head(lines)))

\* A line the parser raises on: marked "!", or without the name separator.
IsMalformed(line) ==
    Contains(line, "!") \/ (~Contains(line, ":") /\ ~Contains(line, "?"))

\* The parser: a dict, or nullptr with an error, or nullptr without one.
pyside_type_init(lines) ==
    IF \E i \in 1..Len(lines) : IsMalformed(lines[i])
    THEN [kind |-> "error", entries |-> <<>>]
    ELSE IF \E i \in 1..Len(lines) : Contains(lines[i], "?")
         THEN [kind |-> "null", entries |-> <<>>]
         ELSE [kind |-> "dict", entries |-> ParseLines(lines, <<>>)]

-----------------------------------------------------------------------------
(* Types: method tables and namespaces *)

\* Python objects as values and as identity-hashed keys of map_dict.
PyObj(ob) == <<"obj", ob>>

PyNone == <<"None">>

\* A PyCFunction made by PyCFunction_NewEx(meth, obtype, nullptr): its
\* self, and the name of meth, which stands for its ml_meth as well.
PyCFunc(ob, name) == <<"cfunc", ob>> \o name

\* _func_with_new_name: a PyCFunction with the ml_meth of meth under
\* another ml_name.
_func_with_new_name(ob, meth, new_name) ==
    IF new_name = meth.ml_name THEN PyCFunc(ob, new_name)
    ELSE PyCFunc(ob, new_name) \o <<"=">> \o meth.ml_name

\* What a namespace holds under a name: the method descriptor itself, a
\* static method wrapping the function, or an unrelated object hiding it.
MethodDescr(ob, name) == <<"descr", ob>> \o name

StaticMethod(func) == <<"staticmethod">> \o func

OtherAttr == <<"signal">>

\* type->tp_methods: W has a plain method dT and a method r that a signal
\* of the same name hides; V has a static method s, and a method d_t next
\* to a method dT; U has a method r and a static method t, both hidden by
\* signals; Q has a method q that its namespace does not hold.
tp_methods(ob) ==
    CASE ob = "W" -> << [ml_name |-> <<"d", "T">>, static |-> FALSE],
                        [ml_name |-> <<"r">>, static |-> FALSE] >>
      [] ob = "V" -> << [ml_name |-> <<"s">>, static |-> TRUE],
                        [ml_name |-> <<"d", "_", "t">>, static |-> FALSE],
                        [ml_name |-> <<"d", "T">>, static |-> FALSE] >>
      [] ob = "U" -> << [ml_name |-> <<"r">>, static |-> FALSE],
                        [ml_name |-> <<"t">>, static |-> TRUE] >>
      [] ob = "Q" -> << [ml_name |-> <<"q">>, static |-> FALSE] >>
      [] OTHER -> <<>>

Put_absent(f, k, v) == [x \in DOMAIN f \cup {k} |-> IF x \in DOMAIN f THEN f[x] ELSE v]

Put(f, k, v) == [x \in DOMAIN f \cup {k} |-> IF x = k THEN v ELSE f[x]]

EmptyMap == [x \in {} |-> <<>>]

Types == {"W", "V"}

\* The types add_more_getsets is applied to: "type" stands for PyType_Type,
\* whose __doc__ is in tp_getset; "sm" for a type whose __doc__ is a plain
\* attribute, in neither tp_getset nor tp_members.
PatchTypes == {"type", "sm"}

\* More classes that are registered: U, G, Q and W2.
MoreTypes == {"U", "G", "Q", "W2"}

AllTypes == Types \cup PatchTypes \cup MoreTypes

\* Attribute names of the getset tables, and the descriptors: the one a
\* type has from PyType_Ready and the one PyDescr_NewGetSet(type, gsp) makes.
Name_doc == <<"__doc__">>

Name_signature == <<"__signature__">>

OrigDescr(ob, name) == <<"getset", ob>> \o name \o <<"orig">>

PyDescr_NewGetSet(ob, name) == <<"getset", ob>> \o name \o <<"new">>

DocString == <<"docstring">>

InitialTpDict(ob) ==
    CASE ob = "W" -> Put(Put(EmptyMap, <<"d", "T">>, MethodDescr("W", <<"d", "T">>)),
                         <<"r">>, OtherAttr)
      [] ob = "V" -> Put(Put(Put(EmptyMap, <<"s">>, StaticMethod(PyCFunc("V", <<"s">>))),
                             <<"d", "_", "t">>, MethodDescr("V", <<"d", "_", "t">>)),
                         <<"d", "T">>, MethodDescr("V", <<"d", "T">>))
      [] ob = "U" -> Put(Put(EmptyMap, <<"r">>, OtherAttr), <<"t">>, OtherAttr)
      [] ob = "type" -> Put(EmptyMap, Name_doc, OrigDescr("type", Name_doc))
      [] ob = "sm" -> Put(EmptyMap, Name_doc, DocString)
      [] OTHER -> EmptyMap

IsOwnAttr_unnamed(descr, ob, meth) ==
    IF meth.static THEN descr = StaticMethod(PyCFunc(ob, meth.ml_name))
    ELSE TRUE

\* Whether the attribute found under the method's name is the method itself:
\* a static method must have __func__, another method the same __name__.
IsOwnAttr(descr, ob, meth) ==
    IF meth.static THEN descr = StaticMethod(PyCFunc(ob, meth.ml_name))
    ELSE descr = MethodDescr(ob, meth.ml_name)

\* _build_func_to_type, the loop over the method table: st is the state so
\* far, [ret, map, dict].
RECURSIVE BuildFuncToTypeLoop(_, _, _)
BuildFuncToTypeLoop(ob, meths, st) ==
    IF meths = <<>> THEN st
    ELSE LET meth == Head(meths)
             mangled_name == meth.ml_name \o <<".", "o", "v", "e", "r", "l", "o", "a", "d">>
         IN  IF meth.ml_name \notin DOMAIN st.dict
             THEN [st EXCEPT !.ret = -1]
             ELSE IF ~IsOwnAttr(st.dict[meth.ml_name], ob, meth)
                  THEN LET cfunc == PyCFunc(ob, meth.ml_name)
                           descr == IF meth.static THEN StaticMethod(cfunc)
                                    ELSE MethodDescr(ob, meth.ml_name)
                           m1 == IF meth.static
                                 THEN Put(st.map, PyTuple2(cfunc, PyStr(<<"o", "v", "e", "r", "l", "o", "a", "d">>)), PyObj(ob))
                                 ELSE st.map
                       IN  BuildFuncToTypeLoop(ob, Tail(meths),
                               [ret |-> 0,
                                map |-> Put(m1, PyStr(mangled_name), PyObj(ob)),
                                dict |-> Put(st.dict, mangled_name, descr)])
                  ELSE BuildFuncToTypeLoop(ob, Tail(meths),
                           [st EXCEPT !.map = IF meth.static
                                               THEN Put(st.map, PyCFunc(ob, meth.ml_name), PyObj(ob))
                                               ELSE st.map])

_build_func_to_type(ob, map, dict) ==
    BuildFuncToTypeLoop(ob, tp_methods(ob), [ret |-> 0, map |-> map, dict |-> dict])

-----------------------------------------------------------------------------
(* Registration: InitSignatureStrings / InitSignatureBytes *)

Activations == {"main", "worker"}

\* The object a signature query is about: a type, or a PyCFunction with its
\* self (cls), its __name__ and the ml_flags that decide its kind.
NoOb == [kind |-> "none", cls |-> "none", name |-> NoAttr, flags |-> {}]

\* No signature query: a plain TypeKey_to_PropsDict call.
NoQuery == [fn |-> "none", ob |-> NoOb, modifier |-> NoAttr]

\* The frame of an activation that is not inside TypeKey_to_PropsDict.
\*   query  the signature query that made the call (NoQuery: none)
\*   key    the key _GetSignature_Cached looks up in the member's record
\*   live   whether the record the query holds is still in the store
Idle ==
    [pc |-> "idle", type_key |-> NullKey, numkey |-> EmptyDictEntry,
     strings |-> <<>>, query |-> NoQuery, key |-> NullKey, live |-> TRUE]

\* PyDict_SetItem(arg_dict, type_key, ...) drops the dict that was stored
\* under type_key: a query inside CreateSignature keeps a record of a dict
\* that the store no longer holds.
Detach(type_key) ==
    [a \in Activations |->
        IF act[a].pc = "create" /\ act[a].type_key = type_key
        THEN [act[a] EXCEPT !.live = FALSE]
        ELSE act[a]]

PySide_BuildSignatureArgs_keep(type_key, entry) ==
    IF type_key \in DOMAIN arg_dict /\ arg_dict[type_key].tag = "dict"
    THEN arg_dict
    ELSE Put(arg_dict, type_key, entry)

\* PySide_BuildSignatureArgs / ...Byte, the store: arg_dict[type_key] = numkey.
PySide_BuildSignatureArgs(type_key, entry) == Put(arg_dict, type_key, entry)

\* Nothing applied on its own yet.
NoProbe == [fn |-> "none", runs |-> "never", arg |-> <<>>, once |-> <<>>, out |-> <<>>]

\* Py_FatalError: the process aborts, and no state of it is left to observe.
Py_FatalError ==
    /\ fatal' = TRUE
    /\ arg_dict' = EmptyMap
    /\ map_dict' = EmptyMap
    /\ empty_dict' = "nullptr"
    /\ act' = [a \in Activations |-> Idle]
    /\ last' = [k \in TypeKeys |-> NoResult]
    /\ regRet' = [ret |-> 0, err |-> "none"]
    /\ tp_dict' = [ob \in AllTypes |-> InitialTpDict(ob)]
    /\ nkfRet' = PyNone
    /\ nbuilt' = [ob \in Types |-> "never"]
    /\ sigRet' = PyNone
    /\ UNCHANGED <<probe, otherVars>>

InitSignature_unchecked(ob, entry) ==
    LET type_key == GetTypeKey(ob)
    IN  /\ ~fatal
        /\ IF type_key = FatalKey
           THEN Py_FatalError
           ELSE /\ arg_dict' = Put(arg_dict, type_key, entry)
                /\ map_dict' = Put(map_dict, type_key, PyObj(ob))
                /\ regRet' = IF type_key = NullKey
                             THEN [ret |-> -1, err |-> "ImportError"]
                             ELSE [ret |-> 0, err |-> "none"]
                /\ last' = [k \in TypeKeys |-> IF k = type_key THEN NoResult ELSE last[k]]
                /\ UNCHANGED <<tp_dict, fatal, probe, otherVars, empty_dict, act, nkfRet, nbuilt, sigRet>>

\* The common body of InitSignatureStrings and InitSignatureBytes:
\* PySide_BuildSignatureArgs[Byte], then _build_func_to_type.
InitSignature(ob, entry) ==
    LET type_key == GetTypeKey(ob)
    IN  /\ ~fatal
        /\ IF type_key = FatalKey
           THEN Py_FatalError
           ELSE IF type_key = NullKey
           THEN /\ regRet' = [ret |-> -1, err |-> "ImportError"]
                /\ UNCHANGED <<arg_dict, map_dict, tp_dict, fatal, probe, otherVars, last,
                               empty_dict, act, nkfRet, nbuilt, sigRet>>
           ELSE LET st == _build_func_to_type(ob, Put(map_dict, type_key, PyObj(ob)),
                                              tp_dict[ob])
                IN  /\ arg_dict' = PySide_BuildSignatureArgs(type_key, entry)
                    /\ map_dict' = st.map
                    /\ tp_dict' = [tp_dict EXCEPT ![ob] = st.dict]
                    /\ regRet' = [ret |-> 0,
                                  err |-> IF st.ret < 0 THEN "ImportError" ELSE "none"]
                    /\ last' = [k \in DOMAIN last |->
                                    IF k = type_key THEN NoResult ELSE last[k]]
                    /\ act' = Detach(type_key)
                    /\ UNCHANGED <<fatal, probe, otherVars, empty_dict, nkfRet, nbuilt, sigRet>>

InitSignatureStrings(ob, signatures) == InitSignature(ob, AddrEntry(signatures))

InitSignatureBytes(ob, b) == InitSignature(ob, TupleEntry(b))

-----------------------------------------------------------------------------
(* Module finalization: FinishSignatureInitialization / FinishSignatureInitBytes *)

\* The modules that are finished: m, and a module object without a name.
Modules == {"mod", "anon"}

\* The PyCFunctions in the dict of a module.
module_functions(module) == IF module = "mod" THEN {<<"g">>} ELSE {}

\* What PySide_PatchTypes returns / what the call of finish_import_func
\* comes to (0 also when there is no finish_import_func yet).
PySide_PatchTypes == {0, -1}

finish_import == {0, -1}

\* _finishSignaturesCommon, the loop: map_dict[func] = module.
_finishSignaturesCommon(module, map) ==
    [x \in DOMAIN map \cup {PyCFunc(module, f) : f \in module_functions(module)} |->
        IF x \in {PyCFunc(module, f) : f \in module_functions(module)}
        THEN PyObj(module) ELSE map[x]]

\* PySide_FinishSignatures[Byte] after PySide_PatchTypes returned patched:
\* the value the condition of the caller tests, -1 for a failure.
FinishResult(module, patched, finished) ==
    IF patched < 0 THEN -1
    ELSE IF Attr_name(module) = NoAttr THEN -1
    ELSE finished

\* The common body: nothing is stored after a failed PySide_PatchTypes or
\* for a module without name; else the entry and the owner map are written.
FinishSignatures(module, entry, patched) ==
    IF patched < 0 \/ Attr_name(module) = NoAttr
    THEN UNCHANGED <<arg_dict, map_dict, act>>
    ELSE /\ arg_dict' = PySide_BuildSignatureArgs(GetTypeKey(module), entry)
         /\ map_dict' = _finishSignaturesCommon(module,
                            Put(map_dict, GetTypeKey(module), PyObj(module)))
         /\ act' = Detach(GetTypeKey(module))

\* FinishSignatureInitialization, what the caller gets: a failure is
\* printed, ImportError is set, and 0 is returned.
FinishSignatureInitialization_ret(module, patched, finished) ==
    [ret |-> 0,
     err |-> IF FinishResult(module, patched, finished) < 0
             THEN "ImportError" ELSE "none"]

FinishSignatureInitialization(module, signatures, patched, finished) ==
    /\ ~fatal
    /\ FinishSignatures(module, AddrEntry(signatures), patched)
    /\ regRet' = FinishSignatureInitialization_ret(module, patched, finished)
    /\ UNCHANGED <<empty_dict, last, tp_dict, nkfRet, nbuilt, sigRet, fatal, probe, otherVars>>

\* FinishSignatureInitBytes, what the caller gets: a failure is returned
\* as -1 with the error of the failed call still set.
FinishSignatureInitBytes_ret(module, patched, finished) ==
    IF FinishResult(module, patched, finished) < 0
    THEN [ret |-> -1, err |-> "raised"]
    ELSE [ret |-> 0, err |-> "none"]

FinishSignatureInitBytes(module, b, patched, finished) ==
    /\ ~fatal
    /\ FinishSignatures(module, TupleEntry(b), patched)
    /\ regRet' = FinishSignatureInitBytes_ret(module, patched, finished)
    /\ UNCHANGED <<empty_dict, last, tp_dict, nkfRet, nbuilt, sigRet, fatal, probe, otherVars>>

-----------------------------------------------------------------------------
(* propsFor: TypeKey_to_PropsDict and PySide_BuildSignatureProps *)

\* An activation runs TypeKey_to_PropsDict up to the next call into Python:
\* zlib.decompress, the parser and CreateSignature are calls during which
\* another activation can run; everything between two such calls is one step.
\*   pc       "idle" | "expand" (inside zlib.decompress) | "parse" (inside
\*            the parser) | "create" (inside CreateSignature)
\*   type_key the argument of the call
\*   numkey   the raw entry PySide_BuildSignatureProps read from arg_dict
\*   strings  the list of strings handed to the parser

\* PyModule_Check: none of the owners of the queried functions is a module.
PyModule_Check(ob) == ob = "mod"

\* The func_kind GetSignature_Function derives from the owner and ml_flags.
FuncKind_static(q) ==
    IF q.fn = "TypeMod" THEN <<"method">>
    ELSE IF PyModule_Check(q.ob.cls) THEN <<"function">>
    ELSE IF "METH_STATIC" \in q.ob.flags THEN <<"staticmethod">>
    ELSE IF "METH_CLASS" \in q.ob.flags THEN <<"classmethod">>
    ELSE <<"method">>

FuncKind(q) ==
    IF q.fn = "TypeMod" THEN <<"method">>
    ELSE IF PyModule_Check(q.ob.cls) THEN <<"function">>
    ELSE IF "METH_CLASS" \in q.ob.flags THEN <<"classmethod">>
    ELSE IF "METH_STATIC" \in q.ob.flags THEN <<"staticmethod">>
    ELSE <<"method">>

\* PyMagicName::func_kind(), the modifier that asks for the kind itself.
Magic_func_kind == <<"__func_kind__">>

\* The key of the signature object in the member's record.
SignatureKey(func_kind, modifier) ==
    IF modifier = NoAttr THEN PyStr(func_kind)
    ELSE PyTuple2(PyStr(func_kind), PyStr(modifier))

\* CreateSignature(props, key): create_signature_func makes the signature
\* object of the layout the modifier names, and none for a layout it does
\* not know (modifier "u").
CreateSignature(name, key) ==
    IF Contains(key, "u") THEN NullKey ELSE <<"sig">> \o name \o key

\* The signature object that the call of CreateSignature by activation a
\* made: every call makes a new object, told apart here by its maker.
SignatureObject(a, value) == value \o <<a>>

\* The keys under which a record holds signature objects, and
\* PyDict_GetItem(props, key): the object under the key, NullKey for none.
CachedKeys(props) == {c[1] : c \in props.cached}

CachedValue(props, key) ==
    IF key \in CachedKeys(props)
    THEN (CHOOSE c \in props.cached : c[1] = key)[2]
    ELSE NullKey

AfterPropsDict_nocache(q, r) ==
    IF q.fn = "none" THEN [frame |-> Idle, ret |-> sigRet]
    ELSE IF r.null THEN [frame |-> Idle, ret |-> NullKey]
    ELSE IF ~DictHas(r.dict.entries, q.ob.name) THEN [frame |-> Idle, ret |-> PyNone]
    ELSE IF q.modifier = Magic_func_kind
         THEN [frame |-> Idle, ret |-> PyStr(FuncKind(q))]
    ELSE [frame |-> [Idle EXCEPT !.pc = "create", !.type_key = r.key,
                                 !.numkey = r.src, !.query = q,
                                 !.key = SignatureKey(FuncKind(q), q.modifier)],
          ret |-> sigRet]

\* After TypeKey_to_PropsDict returned r to the query q (GetSignature_Function
\* or GetSignature_TypeMod): the record of the name, and
\* _GetSignature_Cached up to the call of CreateSignature.  Gives the frame
\* the activation is in next and the value returned, if it returns.
AfterPropsDict(q, r) ==
    IF q.fn = "none" THEN [frame |-> Idle, ret |-> sigRet]
    ELSE IF r.null THEN [frame |-> Idle, ret |-> NullKey]
    ELSE IF ~DictHas(r.dict.entries, q.ob.name) THEN [frame |-> Idle, ret |-> PyNone]
    ELSE IF q.modifier = Magic_func_kind
         THEN [frame |-> Idle, ret |-> PyStr(FuncKind(q))]
    ELSE LET props == DictGet(r.dict.entries, q.ob.name)
             key == SignatureKey(FuncKind(q), q.modifier)
         IN  IF CachedValue(props, key) # NullKey
             THEN [frame |-> Idle, ret |-> CachedValue(props, key)]
             ELSE [frame |-> [Idle EXCEPT !.pc = "create", !.type_key = r.key,
                                          !.numkey = r.src,
                                          !.query = q, !.key = key],
                   ret |-> sigRet]

Name_init == <<"__init__">>

QueryAsMade_anyname(q, r) ==
    IF q.fn = "Wrapper" /\ ~r.null /\ ~DictHas(r.dict.entries, q.ob.name)
    THEN [fn |-> "TypeMod", ob |-> [q.ob EXCEPT !.name = Attr_name(q.ob.cls)],
          modifier |-> q.modifier]
    ELSE q

\* GetSignature_Wrapper, "handle `__init__` like the class itself": a query
\* for a wrapper descriptor named __init__ that finds no record under that
\* name goes on as GetSignature_TypeMod(objclass, modifier), which looks
\* for the record under the name of the class.
QueryAsMade(q, r) ==
    IF q.fn = "Wrapper" /\ q.ob.name = Name_init /\ ~r.null
       /\ ~DictHas(r.dict.entries, q.ob.name)
    THEN [fn |-> "TypeMod", ob |-> [q.ob EXCEPT !.name = Attr_name(q.ob.cls)],
          modifier |-> q.modifier]
    ELSE q

\* TypeKey_to_PropsDict returns r to its caller, the query q or, when q is
\* NoQuery, the outside; replaced: the call has stored a dict under the key.
Return(a, q, r, replaced) ==
    /\ last' = [k \in DOMAIN last |-> IF k = r.key THEN r ELSE last[k]]
    /\ act' = [(IF replaced THEN Detach(r.key) ELSE act)
                   EXCEPT ![a] = AfterPropsDict(QueryAsMade(q, r), r).frame]
    /\ sigRet' = AfterPropsDict(QueryAsMade(q, r), r).ret

CallParser_wait(a, frame, lines) ==
    act' = [act EXCEPT ![a] = IF act[a].pc = "idle" THEN [frame EXCEPT !.pc = "expand"]
                              ELSE act[a]]

\* The parser is called with the list of strings.
CallParser(a, frame, lines) ==
    act' = [act EXCEPT ![a] = [frame EXCEPT !.pc = "parse", !.strings = lines]]

\* zlib.decompress is called with the packed bytes.
CallExpand(a, frame) ==
    act' = [act EXCEPT ![a] = [frame EXCEPT !.pc = "expand"]]

\* TypeKey_to_PropsDict(type_key) called by the query q, and the start of
\* PySide_BuildSignatureProps when the stored value is no dict.
PropsDictCall(a, type_key, q) ==
    /\ ~fatal
    /\ act[a].pc = "idle"
    /\ IF type_key \notin DOMAIN arg_dict
       THEN /\ empty_dict' = "dict"
            /\ Return(a, q, Returned(type_key, EmptyDictEntry, NoBuild), FALSE)
       ELSE LET dict == arg_dict[type_key]
                frame == [Idle EXCEPT !.type_key = type_key, !.numkey = dict,
                                      !.query = q]
            IN  IF dict.tag = "dict"
                THEN /\ Return(a, q, Returned(type_key, dict, NoBuild), FALSE)
                     /\ UNCHANGED empty_dict
                ELSE /\ UNCHANGED <<empty_dict, last, sigRet>>
                     /\ IF dict.tag = "tuple"
                        THEN IF NeedsExpand(dict)
                             THEN CallExpand(a, frame)
                             ELSE CallParser(a, frame, SplitLines(<<>>, <<>>))
                        ELSE CallParser(a, frame, dict.lines)
    /\ UNCHANGED <<arg_dict, map_dict, regRet, tp_dict, nkfRet, nbuilt, fatal, probe, otherVars>>

\* propsFor: TypeKey_to_PropsDict called from outside a signature query.
TypeKey_to_PropsDict(a, type_key) == PropsDictCall(a, type_key, NoQuery)

\* zlib.decompress has returned: bytesToStrings goes on, and
\* PySide_BuildSignatureProps calls the parser or gives up.
BuildProps_Expanded(a) ==
    /\ ~fatal
    /\ act[a].pc = "expand"
    /\ LET data == byteExpand(act[a].numkey)
       IN  IF ~data.ok
           THEN Return(a, act[a].query,
                       ReturnedNull(act[a].type_key, "ValueError", act[a].numkey), FALSE)
           ELSE /\ CallParser(a, act[a], SplitLines(data.data, <<>>))
                /\ UNCHANGED <<last, sigRet>>
    /\ UNCHANGED <<arg_dict, empty_dict, map_dict, regRet, tp_dict, nkfRet, nbuilt, fatal, probe, otherVars>>

BuildProps_Finish_nostore(a, parsed) ==
    LET type_key == act[a].type_key
        src == act[a].numkey
    IN  CASE parsed.kind = "error" ->
               [arg |-> arg_dict, empty |-> empty_dict,
                ret |-> ReturnedNull(type_key, "parser", src)]
          [] parsed.kind = "null" ->
               [arg |-> arg_dict, empty |-> "dict",
                ret |-> Returned(type_key, EmptyDictEntry, src)]
          [] OTHER ->
               [arg |-> arg_dict, empty |-> empty_dict,
                ret |-> Returned(type_key,
                                 DictEntry(insert_snake_case_variants(parsed.entries)), src)]

BuildProps_Finish_restore(a, parsed) ==
    LET type_key == act[a].type_key
        src == act[a].numkey
    IN  CASE parsed.kind = "error" ->
               [arg |-> Put(arg_dict, type_key, src), empty |-> empty_dict,
                ret |-> ReturnedNull(type_key, "parser", src)]
          [] parsed.kind = "null" ->
               [arg |-> Put(arg_dict, type_key, src), empty |-> "dict",
                ret |-> Returned(type_key, EmptyDictEntry, src)]
          [] OTHER ->
               LET dict == DictEntry(insert_snake_case_variants(parsed.entries))
               IN  [arg |-> Put(arg_dict, type_key, dict), empty |-> empty_dict,
                    ret |-> Returned(type_key, dict, src)]

BuildProps_Finish_loser(a, parsed) ==
    LET type_key == act[a].type_key
        src == act[a].numkey
    IN  CASE parsed.kind = "error" ->
               [arg |-> arg_dict, empty |-> empty_dict,
                ret |-> ReturnedNull(type_key, "parser", src)]
          [] parsed.kind = "null" \/ arg_dict[type_key].tag = "dict" ->
               [arg |-> arg_dict, empty |-> "dict",
                ret |-> Returned(type_key, EmptyDictEntry, src)]
          [] OTHER ->
               LET dict == DictEntry(insert_snake_case_variants(parsed.entries))
               IN  [arg |-> Put(arg_dict, type_key, dict), empty |-> empty_dict,
                    ret |-> Returned(type_key, dict, src)]

\* The parser has returned: the rest of PySide_BuildSignatureProps, given
\* as what it decides: the new arg_dict, empty_dict and the result.
BuildProps_Finish(a, parsed) ==
    LET type_key == act[a].type_key
        src == act[a].numkey
    IN  CASE parsed.kind = "error" ->
               [arg |-> arg_dict, empty |-> empty_dict,
                ret |-> ReturnedNull(type_key, "parser", src)]
          [] parsed.kind = "null" ->
               [arg |-> arg_dict, empty |-> "dict",
                ret |-> Returned(type_key, EmptyDictEntry, src)]
          [] OTHER ->
               LET dict == DictEntry(insert_snake_case_variants(parsed.entries))
               IN  [arg |-> Put(arg_dict, type_key, dict), empty |-> empty_dict,
                    ret |-> Returned(type_key, dict, src)]

BuildProps_Parsed(a) ==
    /\ ~fatal
    /\ act[a].pc = "parse"
    /\ LET st == BuildProps_Finish(a, pyside_type_init(act[a].strings))
       IN  /\ arg_dict' = st.arg
           /\ empty_dict' = st.empty
           /\ Return(a, act[a].query, st.ret, ~st.ret.null /\ ~st.ret.dict.static)
    /\ UNCHANGED <<map_dict, regRet, tp_dict, nkfRet, nbuilt, fatal, probe, otherVars>>

CacheSignature_indict(entries, name, key, value) ==
    DictSet(entries, key, SingleRec(name, key))

\* PyDict_SetItem(props, key, value): the record of the name holds the
\* value under the key, in the place of what it held there.
CacheSignature(entries, name, key, value) ==
    DictSet(entries, name,
            [DictGet(entries, name) EXCEPT
                !.cached = {c \in @ : c[1] # key} \cup {<<key, value>>}])

\* CreateSignature has returned: the rest of _GetSignature_Cached, which
\* stores the signature object in the member's record.
GetSignature_Created(a) ==
    /\ ~fatal
    /\ act[a].pc = "create"
    /\ LET type_key == act[a].type_key
           name == act[a].query.ob.name
           value == CreateSignature(name, act[a].key)
       IN  IF value = NullKey
           THEN /\ sigRet' = PyNone
                /\ UNCHANGED arg_dict
           ELSE /\ sigRet' = SignatureObject(a, value)
                /\ arg_dict' =
                      IF act[a].live
                      THEN [arg_dict EXCEPT ![type_key].entries =
                              CacheSignature(@, name, act[a].key,
                                             SignatureObject(a, value))]
                      ELSE arg_dict
    /\ act' = [act EXCEPT ![a] = Idle]
    /\ UNCHANGED <<map_dict, empty_dict, last, regRet, tp_dict, nkfRet, nbuilt, fatal, probe, otherVars>>

\* A PyCFunction of a type, and a type, as the objects of a query.
QFunc(ob, name, flags) == [kind |-> "cfunc", cls |-> ob, name |-> name, flags |-> flags]

QType(ob) == [kind |-> "type", cls |-> ob, name |-> Attr_name(ob), flags |-> {}]

\* A function written in Python (PepFunction_TypePtr).
PyFunction == [kind |-> "function", cls |-> "none", name |-> <<"f">>, flags |-> {}]

\* GetSignature_Function(obfunc, modifier) up to the first call into Python.
GetSignature_Function(a, obfunc, modifier) ==
    IF obfunc.kind = "function" \/ GetTypeKey(obfunc.cls) = NullKey
    THEN /\ ~fatal
         /\ act[a].pc = "idle"
         /\ sigRet' = PyNone
         /\ UNCHANGED <<arg_dict, map_dict, empty_dict, act, last, regRet,
                        tp_dict, nkfRet, nbuilt, fatal, probe, otherVars>>
    ELSE PropsDictCall(a, GetTypeKey(obfunc.cls),
                       [fn |-> "Function", ob |-> obfunc, modifier |-> modifier])

\* GetSignature_TypeMod(ob, modifier) up to the first call into Python.
GetSignature_TypeMod(a, ob, modifier) ==
    PropsDictCall(a, GetTypeKey(ob.cls),
                  [fn |-> "TypeMod", ob |-> ob, modifier |-> modifier])

-----------------------------------------------------------------------------
(* The name index: name_key_to_func and build_name_key_to_func *)

\* The objects looked up: a type, or a PyCFunction whose self is a type.
TypeOb(ob) == [kind |-> "type", cls |-> ob, name |-> Attr_name(ob)]

CFuncOb(ob, name) == [kind |-> "cfunc", cls |-> ob, name |-> name]

LookupObs ==
    { TypeOb("W"),
      CFuncOb("W", <<"d", "T">>), CFuncOb("W", <<"d", "_", "t">>),
      CFuncOb("W", <<"z">>), CFuncOb("V", <<"s">>), CFuncOb("V", <<"d", "_", "t">>) }

\* PyCFunction_GET_SELF of a function made without self.
NoSelf == "nullptr"

\* A PyCFunction without self that the type ob declares as a static method,
\* and the static method object wrapping it.
StaticFuncOb(ob, name) ==
    [kind |-> "cfunc", cls |-> NoSelf, name |-> name, id |-> PyCFunc(ob, name)]

StaticMethodOb(ob, name) == [kind |-> "staticmethod", func |-> StaticFuncOb(ob, name)]

\* A method descriptor / a wrapper descriptor with its __objclass__.
DescrOb(kind, ob, name) == [kind |-> kind, objclass |-> ob, name |-> name]

\* A module object.
ModuleOb(ob) == [kind |-> "module", cls |-> ob, name |-> Attr_name(ob)]

\* PyType_Check of the self of a function: "w" is an instance of W, "None"
\* is Py_None, "mod" a module, the others are types.
PyType_Check(ob) == ob \in {"W", "V", "N", "W2", "U", "G", "Q", "NoneType"}

Py_TYPE(ob) ==
    CASE ob = "w" -> "W"
      [] ob = "None" -> "NoneType"
      [] ob = "mod" -> "module"
      [] OTHER -> "type"

_get_class_of_cf_nomap(ob_cf) ==
    LET selftype == IF ob_cf.cls # NoSelf THEN ob_cf.cls ELSE "None"
    IN  IF PyType_Check(selftype) \/ PyModule_Check(selftype) THEN selftype
        ELSE Py_TYPE(selftype)

\* _get_class_of_cf: the self of the function, else what map_dict has for
\* the function or for (function, "overload"), else Py_None; of that, the
\* type or module itself, or the type of any other object.
_get_class_of_cf(ob_cf) ==
    LET special == PyTuple2(ob_cf.id, PyStr(<<"o", "v", "e", "r", "l", "o", "a", "d">>))
        selftype ==
            IF ob_cf.cls # NoSelf THEN ob_cf.cls
            ELSE IF ob_cf.id \in DOMAIN map_dict THEN map_dict[ob_cf.id][2]
            ELSE IF special \in DOMAIN map_dict THEN map_dict[special][2]
            ELSE "None"
    IN  IF PyType_Check(selftype) \/ PyModule_Check(selftype) THEN selftype
        ELSE Py_TYPE(selftype)

\* _get_class_of_sm: _get_class_of_cf of __func__.
_get_class_of_sm(ob_sm) == _get_class_of_cf(ob_sm.func)

\* _get_class_of_descr: __objclass__.
_get_class_of_descr(ob) == ob.objclass

\* The outcome of Py_FatalError in GetClassOrModOf.
FatalOb == "FATAL"

\* GetClassOrModOf: the decision over the kind of ob.
GetClassOrModOf(ob) ==
    CASE ob.kind = "type" -> ob.cls
      [] ob.kind = "cfunc" -> _get_class_of_cf(ob)
      [] ob.kind = "staticmethod" -> _get_class_of_sm(ob)
      [] ob.kind = "method_descriptor" -> _get_class_of_descr(ob)
      [] ob.kind = "wrapper_descriptor" -> _get_class_of_descr(ob)
      [] OTHER -> FatalOb

\* compute_name_key: the type key of a type, else (type key, function name).
compute_name_key(ob) ==
    IF ob.kind = "type" THEN GetTypeKey(ob.cls)
    ELSE PyTuple2(GetTypeKey(GetClassOrModOf(ob)), PyStr(ob.name))

\* One loop of build_name_key_to_func: an entry per method, under the name
\* the function gets (declared, or snake case when snake is TRUE).
RECURSIVE NameKeyLoop(_, _, _, _)
NameKeyLoop(ob, meths, snake, map) ==
    IF meths = <<>> THEN map
    ELSE LET name == IF snake THEN getSnakeCaseName(Head(meths).ml_name)
                     ELSE Head(meths).ml_name
             func == IF snake THEN _func_with_new_name(ob, Head(meths), name)
                     ELSE PyCFunc(ob, name)
         IN  NameKeyLoop(ob, Tail(meths), snake,
                         Put(map, PyTuple2(GetTypeKey(ob), PyStr(name)), func))

build_name_key_to_func_declared(ob, map) == NameKeyLoop(ob, tp_methods(ob), FALSE, map)

build_name_key_to_func_snake(ob, map) == NameKeyLoop(ob, tp_methods(ob), TRUE, map)

\* build_name_key_to_func: the declared names, then the snake case names.
build_name_key_to_func(ob, map) ==
    NameKeyLoop(ob, tp_methods(ob), TRUE, NameKeyLoop(ob, tp_methods(ob), FALSE, map))

\* One more run of build_name_key_to_func for a type.
OneMoreBuild(n) == IF n = "never" THEN "once" ELSE "again"

\* name_key_to_func(ob): the entry of the name key, after a lazy build of the
\* index of the owner when there is none.
name_key_to_func(ob) ==
    /\ ~fatal
    /\ LET name_key == compute_name_key(ob)
           type_key == GetTypeKey(GetClassOrModOf(ob))
       IN  IF name_key \in DOMAIN map_dict
           THEN /\ nkfRet' = map_dict[name_key]
                /\ UNCHANGED <<map_dict, nbuilt>>
           ELSE IF type_key \notin DOMAIN map_dict
                THEN /\ nkfRet' = PyNone
                     /\ UNCHANGED <<map_dict, nbuilt>>
                ELSE LET type == map_dict[type_key][2]
                         built == build_name_key_to_func(type, map_dict)
                     IN  /\ nbuilt' = [t \in DOMAIN nbuilt |->
                                          IF t = type THEN OneMoreBuild(nbuilt[t])
                                          ELSE nbuilt[t]]
                         /\ map_dict' = built
                         /\ nkfRet' = IF name_key \in DOMAIN built THEN built[name_key]
                                      ELSE NullKey
    /\ UNCHANGED <<arg_dict, empty_dict, act, last, regRet, tp_dict, sigRet, fatal, probe, otherVars>>

\* name_key_to_func(ob) when the lazy initialization finds an object that
\* is no type under the type key: assert(PyType_Check(type)) ends the
\* process; without assertions build_name_key_to_func reads the object as a
\* type, which crashes or finds no method table and returns nullptr.
name_key_to_func_notype(ob) ==
    /\ ~fatal
    /\ \/ Py_FatalError
       \/ /\ nkfRet' = NullKey
          /\ UNCHANGED <<arg_dict, map_dict, empty_dict, act, last, regRet, tp_dict,
                         nbuilt, sigRet, fatal, probe, otherVars>>

\* Whether a lookup of ob falls into the lazy initialization, and the
\* object it finds under the type key of the owner.
LazyInit(ob) ==
    /\ compute_name_key(ob) \notin DOMAIN map_dict
    /\ GetTypeKey(GetClassOrModOf(ob)) \in DOMAIN map_dict

LazyInitType(ob) == map_dict[GetTypeKey(GetClassOrModOf(ob))][2]

\* name_key_to_func(ob), with the assertion.
name_key_to_func_checked(ob) ==
    IF LazyInit(ob) /\ ~PyType_Check(LazyInitType(ob))
    THEN name_key_to_func_notype(ob)
    ELSE name_key_to_func(ob)

-----------------------------------------------------------------------------
(* The patcher: add_more_getsets *)

\* No replacement namespace.
NoDict == [switched |-> FALSE, dict |-> EmptyMap]

\* PepType_GetDict(type): the namespace the type has now.
PepType_GetDict(ob) == IF sel_dict[ob].switched THEN sel_dict[ob].dict ELSE tp_dict[ob]

\* type->tp_getset and type->tp_members, by the names in them.
tp_getset(ob) == IF ob = "type" THEN {Name_doc} ELSE {}

tp_members(ob) == {}

\* _fixup_getset: whether the name is in tp_getset or in tp_members.
_fixup_getset(ob, name) == name \in tp_getset(ob) \/ name \in tp_members(ob)

\* The getset tables handed to add_more_getsets.
GetsetTables == { <<Name_doc>>, <<Name_signature, Name_doc>> }

\* add_more_getsets, the loop over gsp: st is [dict, doc, failed], failed
\* when assert(false) has ended the process; asserts: whether the build has
\* assertions.
RECURSIVE GetsetLoop(_, _, _, _)
GetsetLoop(ob, gsp, asserts, st) ==
    IF gsp = <<>> \/ st.failed THEN st
    ELSE LET name == Head(gsp)
             have == name \in DOMAIN st.dict
             doc == IF have /\ name = Name_doc THEN st.dict[name] ELSE st.doc
             installed == [dict |-> Put(st.dict, name, PyDescr_NewGetSet(ob, name)),
                           doc |-> doc, failed |-> FALSE]
         IN  IF have /\ name # Name_doc /\ asserts
             THEN [st EXCEPT !.failed = TRUE]
             ELSE IF have /\ ~_fixup_getset(ob, name)
             THEN GetsetLoop(ob, Tail(gsp), asserts, [st EXCEPT !.doc = doc])
             ELSE GetsetLoop(ob, Tail(gsp), asserts, installed)

\* add_more_getsets(type, gsp, doc_descr): the descriptors go into the
\* namespace PepType_GetDict gives.
add_more_getsets(ob, gsp, asserts) ==
    LET st == GetsetLoop(ob, gsp, asserts,
                         [dict |-> PepType_GetDict(ob), doc |-> doc_descr[ob],
                          failed |-> FALSE])
    IN  /\ ~fatal
        /\ fatal' = st.failed
        /\ doc_descr' = [doc_descr EXCEPT ![ob] = st.doc]
        /\ IF sel_dict[ob].switched
           THEN /\ sel_dict' = [sel_dict EXCEPT ![ob].dict = st.dict]
                /\ UNCHANGED tp_dict
           ELSE /\ tp_dict' = [tp_dict EXCEPT ![ob] = st.dict]
                /\ UNCHANGED sel_dict
        /\ getsets_done' = IF st.failed THEN getsets_done ELSE getsets_done \cup {<<ob, gsp>>}
        /\ UNCHANGED <<arg_dict, map_dict, empty_dict, act, last, regRet, nkfRet,
                       nbuilt, sigRet, probe, propVars, slotVars, importVars>>

\* Another layer puts a namespace of its own in the place of the type's,
\* with the attributes the type has and the original as its orig_dict.
SwitchDict(ob) ==
    /\ ~fatal
    /\ ~sel_dict[ob].switched
    /\ sel_dict' = [sel_dict EXCEPT ![ob] = [switched |-> TRUE, dict |-> tp_dict[ob]]]
    /\ UNCHANGED <<arg_dict, map_dict, empty_dict, act, last, regRet, tp_dict, nkfRet,
                   nbuilt, sigRet, probe, fatal, doc_descr, getsets_done, propVars, slotVars, importVars>>

-----------------------------------------------------------------------------
(* Properties: PySidePropertyPrivate *)

\* What a slot (fget, fset, freset, fdel) holds: nullptr, Py_None, or a
\* callable.
Py_nullptr == "nullptr"

Py_None == "None"

PropIds == {"p1", "p2", "p3"}

PropSlots == {"fget", "fset", "freset", "fdel"}

\* A Property object that does not exist (yet).
NoProp ==
    [alive |-> FALSE, type |-> Py_None, typeName |-> "", fget |-> Py_nullptr,
     fset |-> Py_nullptr, freset |-> Py_nullptr, fdel |-> Py_nullptr,
     constant |-> FALSE]

NoPropRet == [fn |-> "none", ret |-> 0, err |-> "none", calls |-> <<>>]

\* PySide::Signal::getTypeName(type): the type name of a Python type or of
\* a type name string, empty for None.
Signal_getTypeName(type) ==
    CASE type = "int" -> "int"
      [] type = "Foo" -> "Foo"
      [] OTHER -> ""

\* Conversions::SpecificConverter(typeName): whether there is a converter.
SpecificConverter(typeName) == typeName = "int"

\* The arguments of Property(...): type, fget, fset, freset, fdel, constant.
\* All sets of callables for an int property, a property of a type name
\* without converter, a constant property with a setter, a property of None.
PropArgs ==
    [type : {"int"}, fget : {Py_nullptr, "g"}, fset : {Py_nullptr, "s"},
     freset : {Py_nullptr, "r"}, fdel : {Py_nullptr, "d"}, constant : {FALSE}]
      \cup [type : {"Foo", Py_None}, fget : {"g"}, fset : {"s"}, freset : {Py_nullptr},
            fdel : {Py_nullptr}, constant : {FALSE}]
      \cup [type : {"int"}, fget : {"g"}, fset : {Py_nullptr, Py_None, "s"},
            freset : {Py_nullptr}, fdel : {Py_nullptr}, constant : {TRUE}]

\* qpropertyTpInit, the checks: the error it sets.
qpropertyTpInit_error(a) ==
    IF a.type = Py_None \/ Signal_getTypeName(a.type) = "" THEN "TypeError"
    ELSE IF a.constant /\ a.fset # Py_nullptr /\ a.fset # Py_None THEN "TypeError"
    ELSE "none"

\* qpropertyTpInit: the private data of the new object.
qpropertyTpInit(a) ==
    [alive |-> TRUE, type |-> a.type, typeName |-> Signal_getTypeName(a.type),
     fget |-> a.fget, fset |-> a.fset, freset |-> a.freset, fdel |-> a.fdel,
     constant |-> a.constant]

\* Property(...): qpropertyTpNew and qpropertyTpInit; the object is given up
\* when the initialization fails.
NewProperty(id, a) ==
    /\ ~fatal
    /\ ~heap[id].alive
    /\ \A other \in PropIds : ~heap[other].alive
    /\ IF qpropertyTpInit_error(a) = "none"
       THEN /\ heap' = [heap EXCEPT ![id] = qpropertyTpInit(a)]
            /\ propRet' = [fn |-> "init", ret |-> 0, err |-> "none", calls |-> <<>>]
       ELSE /\ heap' = heap
            /\ propRet' = [fn |-> "init", ret |-> -1, err |-> qpropertyTpInit_error(a),
                           calls |-> <<>>]
    /\ UNCHANGED <<arg_dict, map_dict, empty_dict, act, last, regRet, tp_dict, nkfRet,
                   nbuilt, sigRet, probe, fatal, patchVars, slotVars, importVars>>

_property_copy_fresh(old, given) ==
    [type |-> old.type,
     fget |-> IF given.fget = Py_nullptr THEN Py_None ELSE given.fget,
     fset |-> IF given.fset = Py_nullptr THEN Py_None ELSE given.fset,
     freset |-> IF given.freset = Py_nullptr THEN Py_None ELSE given.freset,
     fdel |-> IF given.fdel = Py_nullptr THEN Py_None ELSE given.fdel,
     constant |-> old.constant]

\* _property_copy(old, get, set, reset, del): the arguments of the call of
\* the type that makes the copy; a callable not given or None is taken from
\* old, and is None when old has none.
_property_copy(old, given) ==
    LET pick(slot) == IF given[slot] = Py_nullptr \/ given[slot] = Py_None
                      THEN (IF old[slot] # Py_nullptr THEN old[slot] ELSE Py_None)
                      ELSE given[slot]
    IN  [type |-> old.type, fget |-> pick("fget"), fset |-> pick("fset"),
         freset |-> pick("freset"), fdel |-> pick("fdel"), constant |-> old.constant]

\* No callable given to _property_copy.
NoneGiven ==
    [fget |-> Py_nullptr, fset |-> Py_nullptr, freset |-> Py_nullptr, fdel |-> Py_nullptr]

\* The callables handed to a modifier.
ModifierArgs == {"h", Py_None}

\* qPropertyGetter / qPropertySetter / qPropertyResetter / qPropertyDeleter:
\* old.getter(f) and the like make the object id from _property_copy.
Modifier(old, id, slot, f) ==
    LET a == _property_copy(heap[old], [NoneGiven EXCEPT ![slot] = f])
    IN  /\ ~fatal
        /\ heap[old].alive
        /\ ~heap[id].alive
        /\ IF qpropertyTpInit_error(a) = "none"
           THEN /\ heap' = [heap EXCEPT ![id] = qpropertyTpInit(a)]
                /\ propRet' = [fn |-> slot, ret |-> 0, err |-> "none", calls |-> <<>>]
           ELSE /\ heap' = heap
                /\ propRet' = [fn |-> slot, ret |-> -1,
                               err |-> qpropertyTpInit_error(a), calls |-> <<>>]
        /\ UNCHANGED <<arg_dict, map_dict, empty_dict, act, last, regRet, tp_dict,
                       nkfRet, nbuilt, sigRet, probe, fatal, patchVars, slotVars, importVars>>

\* qProperty_fget / _fset / _freset / _fdel: the attribute of the object.
qProperty_f(pd, slot) == IF pd[slot] = Py_nullptr THEN Py_None ELSE pd[slot]

\* PyObject_CallObject(f, args): the call, and its outcome; None is not
\* callable, a callable raises or not.
PyObject_CallObject(f, args, raises) ==
    [calls |-> << [f |-> f, args |-> args] >>,
     ret |-> IF f = Py_None \/ raises THEN -1 ELSE 0,
     err |-> IF f = Py_None THEN "TypeError" ELSE IF raises THEN "raised" ELSE "none"]

\* PySidePropertyPrivate::setValue(source, value).
setValue(pd, source, value, raises) ==
    IF pd.fset # Py_nullptr /\ value # Py_nullptr
    THEN PyObject_CallObject(pd.fset, <<source, value>>, raises)
    ELSE IF pd.fdel # Py_nullptr
    THEN PyObject_CallObject(pd.fdel, <<source>>, raises)
    ELSE [calls |-> <<>>, ret |-> -1, err |-> "AttributeError"]

\* PySidePropertyPrivate::reset(source).
reset(pd, source, raises) ==
    IF pd.freset # Py_nullptr
    THEN PyObject_CallObject(pd.freset, <<source>>, raises)
    ELSE [calls |-> <<>>, ret |-> -1, err |-> "none"]

\* PySidePropertyPrivate::getValue(source).
getValue(pd, source, raises) ==
    IF pd.fget # Py_nullptr
    THEN PyObject_CallObject(pd.fget, <<source>>, raises)
    ELSE [calls |-> <<>>, ret |-> -1, err |-> "none"]

\* PySide::Property::setValue(self, source, value), value nullptr for a
\* deletion.
PropertySetValue(id, value, raises) ==
    /\ ~fatal
    /\ heap[id].alive
    /\ propRet' = [fn |-> "setValue"] @@ setValue(heap[id], "inst", value, raises)
    /\ UNCHANGED <<arg_dict, map_dict, empty_dict, act, last, regRet, tp_dict, nkfRet,
                   nbuilt, sigRet, probe, fatal, patchVars, heap, slotVars, importVars>>

metaCall_silent(pd, source, call, raises) ==
    CASE call = "ReadProperty" -> getValue(pd, source, raises)
      [] call = "WriteProperty" ->
           IF SpecificConverter(pd.typeName) THEN setValue(pd, source, "v", raises)
           ELSE [calls |-> <<>>, ret |-> 0, err |-> "none"]
      [] call = "ResetProperty" -> reset(pd, source, raises)
      [] OTHER -> [calls |-> <<>>, ret |-> 0, err |-> "none"]

\* PySidePropertyPrivate::metaCall(source, call, args): the calls it makes
\* and the error that is set when it returns (it returns nothing).
metaCall(pd, source, call, raises) ==
    CASE call = "ReadProperty" ->
           LET value == getValue(pd, source, raises)
           IN  IF value.ret = 0 /\ ~SpecificConverter(pd.typeName)
               THEN [value EXCEPT !.err = "StopIteration"]
               ELSE value
      [] call = "WriteProperty" ->
           IF SpecificConverter(pd.typeName) THEN setValue(pd, source, "v", raises)
           ELSE [calls |-> <<>>, ret |-> 0, err |-> "StopIteration"]
      [] call = "ResetProperty" -> reset(pd, source, raises)
      [] OTHER -> [calls |-> <<>>, ret |-> 0, err |-> "none"]

MetaCalls == {"ReadProperty", "WriteProperty", "ResetProperty", "InvokeMetaMethod"}

PropertyMetaCall(id, call, raises) ==
    /\ ~fatal
    /\ heap[id].alive
    /\ propRet' = [fn |-> call] @@ metaCall(heap[id], "inst", call, raises)
    /\ UNCHANGED <<arg_dict, map_dict, empty_dict, act, last, regRet, tp_dict, nkfRet,
                   nbuilt, sigRet, probe, fatal, patchVars, heap, slotVars, importVars>>

\* Properties: Property(...), modifiers, setValue and metaCall.
NextProp ==
    \/ \E a \in PropArgs : NewProperty("p1", a)
    \/ \E slot \in PropSlots, f \in ModifierArgs : Modifier("p1", "p2", slot, f)
    \/ \E slot \in PropSlots, f \in ModifierArgs : Modifier("p2", "p3", slot, f)
    \/ \E id \in PropIds, value \in {"v", Py_nullptr}, raises \in BOOLEAN :
          PropertySetValue(id, value, raises)
    \/ \E id \in PropIds, call \in MetaCalls, raises \in BOOLEAN :
          PropertyMetaCall(id, call, raises)

-----------------------------------------------------------------------------
(* Slots: slotTpInit and slotCall *)

SlotIds == {"s1", "s2"}

\* The objects a Slot object is applied to: f is a function named f, g a
\* callable object without __name__, x is not callable.
Callbacks == {"f", "g", "x"}

PyCallable_Check(callback) == callback \in {"f", "g"}

\* PyObject_GetAttr(callback, __name__), "<no name>" when there is none.
FuncName(callback) == IF callback = "f" THEN "f" ELSE "<no name>"

\* PySide::Signal::getTypeName of an argument or result type, empty for an
\* object that names no type; voidType().
Slot_getTypeName(type) ==
    CASE type = "int" -> "int"
      [] type = "str" -> "QString"
      [] type = "const int" -> "const int"
      [] OTHER -> ""

voidType == "void"

\* QMetaObject::normalizedType.
normalizedType(type) == IF type = "const int" THEN "int" ELSE type

\* No SlotData (slotData == nullptr), and a new SlotData.
NoSlotData == [set |-> FALSE, name |-> "", args |-> <<>>, resultType |-> ""]

NewSlotData == [set |-> TRUE, name |-> "", args |-> <<>>, resultType |-> ""]

\* A Slot object: its SlotData, the arguments it was made with (kw) and
\* how often it has been applied ("new": not made yet).
NoKw == [types |-> <<>>, name |-> Py_nullptr, result |-> Py_nullptr]

NoSlot == [data |-> NoSlotData, kw |-> NoKw, uses |-> "new"]

NoList == [has |-> FALSE, list |-> <<>>]

\* The arguments of Slot(*types, name=, result=).
SlotArgs ==
    { [types |-> <<>>, name |-> Py_nullptr, result |-> Py_nullptr],
      [types |-> <<"int">>, name |-> Py_nullptr, result |-> Py_nullptr],
      [types |-> <<"int", "str">>, name |-> "n", result |-> "int"],
      [types |-> <<"str">>, name |-> "", result |-> "const int"],
      [types |-> <<"list">>, name |-> "n", result |-> Py_nullptr] }

\* slotTpInit, the loop: the type names of the arguments with ',' between.
RECURSIVE SlotArgsLoop(_, _)
SlotArgsLoop(types, args) ==
    IF types = <<>> THEN args
    ELSE SlotArgsLoop(Tail(types),
                      (IF args # <<>> THEN Append(args, ",") ELSE args)
                          \o <<Slot_getTypeName(Head(types))>>)

\* slotTpInit for a new object: the SlotData.
slotTpInit(kw) ==
    [set |-> TRUE,
     name |-> IF kw.name # Py_nullptr THEN kw.name ELSE "",
     args |-> SlotArgsLoop(kw.types, <<>>),
     resultType |-> IF kw.result # Py_nullptr THEN Slot_getTypeName(kw.result)
                    ELSE voidType]

\* Slot(...): PyType_GenericNew and slotTpInit, which fails on an argument
\* that names no type.
NewSlot(id, kw) ==
    /\ ~fatal
    /\ slot_data[id].uses = "new"
    /\ IF \E i \in 1..Len(kw.types) : Slot_getTypeName(kw.types[i]) = ""
       THEN /\ slotRet' = [ret |-> Py_nullptr, err |-> "TypeError"]
            /\ UNCHANGED slot_data
       ELSE /\ slotRet' = [ret |-> id, err |-> "none"]
            /\ slot_data' = [slot_data EXCEPT
                                ![id] = [data |-> slotTpInit(kw), kw |-> kw,
                                         uses |-> "ready"]]
    /\ UNCHANGED <<arg_dict, map_dict, empty_dict, act, last, regRet, tp_dict, nkfRet,
                   nbuilt, sigRet, probe, fatal, patchVars, propVars, slot_list, importVars>>

slotCall_name_func(data, callback) == FuncName(callback)

\* slotCall: the name of the slot.
slotCall_name(data, callback) ==
    IF data.name = "" THEN FuncName(callback) ELSE data.name

\* slotCall: the signature, returnType + ' ' + name + '(' + args + ')'.
slotCall_signature(data, callback) ==
    <<normalizedType(data.resultType), " ", slotCall_name(data, callback), "(">>
        \o data.args \o <<")">>

slotCall_list_new(attr, pySignature) == [has |-> TRUE, list |-> <<pySignature>>]

\* slotCall: the list of the callable with the signature appended, made
\* when the callable has none.
slotCall_list(attr, pySignature) ==
    [has |-> TRUE, list |-> Append(IF attr.has THEN attr.list ELSE <<>>, pySignature)]

\* One more application of a Slot object.
OneMoreUse(uses) == IF uses = "ready" THEN "once" ELSE "twice"

\* slotCall(self, callback): self(callback).
slotCall(id, callback) ==
    /\ ~fatal
    /\ slot_data[id].uses \in {"ready", "once"}
    /\ slotRet' = [ret |-> callback, err |-> "none"]
    /\ IF PyCallable_Check(callback)
       THEN LET data == IF slot_data[id].data.set THEN slot_data[id].data
                        ELSE NewSlotData
            IN  /\ slot_list' = [slot_list EXCEPT ![callback] =
                                    slotCall_list(@, slotCall_signature(data, callback))]
                /\ slot_data' = [slot_data EXCEPT ![id].data = NoSlotData,
                                                  ![id].uses = OneMoreUse(@)]
       ELSE /\ slot_data' = [slot_data EXCEPT ![id].uses = OneMoreUse(@)]
            /\ UNCHANGED slot_list
    /\ UNCHANGED <<arg_dict, map_dict, empty_dict, act, last, regRet, tp_dict, nkfRet,
                   nbuilt, sigRet, probe, fatal, patchVars, propVars, importVars>>

\* Slot objects are made and applied.
NextSlot ==
    \/ \E id \in SlotIds, kw \in SlotArgs : NewSlot(id, kw)
    \/ \E id \in SlotIds, callback \in Callbacks : slotCall(id, callback)

-----------------------------------------------------------------------------
(* The specification *)

-----------------------------------------------------------------------------
(* feature_import *)

\* The names that are imported.
ImportNames == {"PySide6", "os", "__feature__"}

\* What the Python function feature_import_func returns: None when no
\* feature is involved, a module it made, or nullptr (NullKey) with an
\* error set.
HandlerResults == {PyNone, PyObj("feature"), NullKey}

\* What builtins.__orig_import__ returns: a module, or nullptr.
ImportResults == {PyObj("PySide6"), PyObj("os"), NullKey}

\* What the post-import hook feature_imported_func returns.
HookResults == {PyNone, NullKey}

\* An activation outside feature_import, before its first call.
\*   pc       "idle" | "handler" | "import" | "hook": the Python call the
\*            activation is inside
\*   handled  what feature_import_func returned
\*   imports  calls of __orig_import__ by this call: "never", "once", "again"
\*   hooks    calls of feature_imported_func by this call
\*   module   what __orig_import__ returned
\*   ret,err  what feature_import returned, and the pending error
NoImport ==
    [pc |-> "idle", name |-> "none", handled |-> PyNone, imports |-> "never",
     hooks |-> "never", module |-> NullKey, ret |-> PyNone, err |-> "none"]

\* feature_import(args, kwds), up to the call of feature_import_func.
feature_import(a, name) ==
    /\ ~fatal
    /\ imp[a].pc = "idle"
    /\ imp' = [imp EXCEPT ![a] = [NoImport EXCEPT !.pc = "handler", !.name = name]]
    /\ UNCHANGED <<arg_dict, map_dict, empty_dict, act, last, regRet, tp_dict, nkfRet,
                   nbuilt, sigRet, probe, fatal, patchVars, propVars, slotVars>>

\* feature_import_func has returned r: a result other than None is
\* returned; else __orig_import__ is taken from builtins (has: whether it
\* is there) and called.
feature_import_handled(a, r, has) ==
    /\ ~fatal
    /\ imp[a].pc = "handler"
    /\ IF r # PyNone
       THEN /\ imp' = [imp EXCEPT ![a].pc = "idle", ![a].handled = r, ![a].ret = r,
                                  ![a].err = IF r = NullKey THEN "raised" ELSE "none"]
            /\ UNCHANGED <<arg_dict, map_dict, empty_dict, act, last, regRet, tp_dict, nkfRet,
                           nbuilt, sigRet, probe, fatal, patchVars, propVars, slotVars>>
       ELSE IF ~has
       THEN Py_FatalError
       ELSE /\ imp' = [imp EXCEPT ![a].pc = "import", ![a].handled = r,
                                  ![a].imports = OneMoreBuild(imp[a].imports)]
            /\ UNCHANGED <<arg_dict, map_dict, empty_dict, act, last, regRet, tp_dict, nkfRet,
                           nbuilt, sigRet, probe, fatal, patchVars, propVars, slotVars>>

feature_import_imported_always(a, ret) ==
    /\ ~fatal
    /\ imp[a].pc = "import"
    /\ imp' = [imp EXCEPT ![a].pc = "hook", ![a].module = ret,
                          ![a].hooks = OneMoreBuild(imp[a].hooks)]
    /\ UNCHANGED <<arg_dict, map_dict, empty_dict, act, last, regRet, tp_dict, nkfRet,
                   nbuilt, sigRet, probe, fatal, patchVars, propVars, slotVars>>

\* __orig_import__ has returned ret: nullptr is returned as it is; for a
\* module feature_imported_func is called.
feature_import_imported(a, ret) ==
    /\ ~fatal
    /\ imp[a].pc = "import"
    /\ imp' = IF ret = NullKey
              THEN [imp EXCEPT ![a].pc = "idle", ![a].module = ret, ![a].ret = ret,
                               ![a].err = "raised"]
              ELSE [imp EXCEPT ![a].pc = "hook", ![a].module = ret,
                               ![a].hooks = OneMoreBuild(imp[a].hooks)]
    /\ UNCHANGED <<arg_dict, map_dict, empty_dict, act, last, regRet, tp_dict, nkfRet,
                   nbuilt, sigRet, probe, fatal, patchVars, propVars, slotVars>>

\* feature_imported_func has returned post: nullptr drops the module and
\* is returned; else the module is returned.
feature_import_hooked(a, post) ==
    /\ ~fatal
    /\ imp[a].pc = "hook"
    /\ imp' = IF post = NullKey
              THEN [imp EXCEPT ![a].pc = "idle", ![a].ret = NullKey, ![a].err = "raised"]
              ELSE [imp EXCEPT ![a].pc = "idle", ![a].ret = imp[a].module]
    /\ UNCHANGED <<arg_dict, map_dict, empty_dict, act, last, regRet, tp_dict, nkfRet,
                   nbuilt, sigRet, probe, fatal, patchVars, propVars, slotVars>>

-----------------------------------------------------------------------------
Init ==
    /\ arg_dict = EmptyMap
    /\ map_dict = EmptyMap
    /\ empty_dict = "nullptr"
    /\ act = [a \in Activations |-> Idle]
    /\ last = [k \in TypeKeys |-> NoResult]
    /\ regRet = [ret |-> 0, err |-> "none"]
    /\ tp_dict = [ob \in AllTypes |-> InitialTpDict(ob)]
    /\ nkfRet = PyNone
    /\ nbuilt = [ob \in Types |-> "never"]
    /\ sigRet = PyNone
    /\ probe = NoProbe
    /\ fatal = FALSE
    /\ sel_dict = [ob \in AllTypes |-> NoDict]
    /\ doc_descr = [ob \in AllTypes |-> NullKey]
    /\ getsets_done = {}
    /\ heap = [id \in PropIds |-> NoProp]
    /\ propRet = NoPropRet
    /\ slot_data = [id \in SlotIds |-> NoSlot]
    /\ slot_list = [callback \in Callbacks |-> NoList]
    /\ slotRet = [ret |-> Py_nullptr, err |-> "none"]
    /\ imp = [a \in Activations |-> NoImport]

\* Registration and propsFor by two activations.
Next ==
    \/ \E r \in StringRegistrations : InitSignatureStrings(r[1], r[2])
    \/ \E r \in ByteRegistrations : InitSignatureBytes(r[1], r[2])
    \/ \E a \in Activations, type_key \in TypeKeys : TypeKey_to_PropsDict(a, type_key)
    \/ \E a \in Activations : BuildProps_Expanded(a)
    \/ \E a \in Activations : BuildProps_Parsed(a)

Spec == Init /\ [][Next]_vars

\* Registration and name index lookups.
NextIndex ==
    \/ \E r \in StringRegistrations : InitSignatureStrings(r[1], r[2])
    \/ \E r \in ByteRegistrations : InitSignatureBytes(r[1], r[2])
    \/ \E ob \in LookupObs : name_key_to_func(ob)

SpecIndex == Init /\ [][NextIndex]_vars

\* Registration of the types, then finalization of the module.
NextFinish ==
    \/ \E r \in StringRegistrations : InitSignatureStrings(r[1], r[2])
    \/ \E r \in ByteRegistrations : InitSignatureBytes(r[1], r[2])
    \/ \E module \in Modules, patched \in PySide_PatchTypes, finished \in finish_import :
          FinishSignatureInitialization(module, SomeArray, patched, finished)
    \/ \E module \in Modules, patched \in PySide_PatchTypes, finished \in finish_import :
          FinishSignatureInitBytes(module, EmptyBlob, patched, finished)

SpecFinish == Init /\ [][NextFinish]_vars

\* Registration of the types and the patcher, with namespaces that another
\* layer replaces.
NextPatch ==
    \/ InitSignatureStrings("W", SomeArray)
    \/ InitSignatureBytes("V", EmptyBlob)
    \/ \E ob \in PatchTypes, gsp \in GetsetTables, asserts \in BOOLEAN :
          add_more_getsets(ob, gsp, asserts)
    \/ \E ob \in {"W", "type"} : SwitchDict(ob)

SpecPatch == Init /\ [][NextPatch]_vars

SpecProp == Init /\ [][NextProp]_vars

SpecSlot == Init /\ [][NextSlot]_vars

\* The objects GetClassOrModOf is called for: a type, C functions whose
\* self is a type, an instance or a module, a static function without self
\* and its static method, descriptors, a module and a Python function.
OwnerObs ==
    { TypeOb("W"),
      CFuncOb("W", <<"d", "T">>), CFuncOb("w", <<"d", "T">>), CFuncOb("mod", <<"g">>),
      StaticFuncOb("V", <<"s">>), StaticMethodOb("V", <<"s">>),
      DescrOb("method_descriptor", "V", <<"d", "T">>),
      DescrOb("wrapper_descriptor", "W", <<"_", "_", "i", "n", "i", "t", "_", "_">>),
      ModuleOb("mod"), PyFunction }

\* GetClassOrModOf(ob).  A fatal error ends the process in the call.
Probe_GetClassOrModOf(ob) ==
    /\ ~fatal
    /\ probe' = [fn |-> "GetClassOrModOf", runs |-> "once", arg |-> <<ob>>,
                 once |-> GetClassOrModOf(ob), out |-> GetClassOrModOf(ob)]
    /\ fatal' = (GetClassOrModOf(ob) = FatalOb)
    /\ UNCHANGED <<arg_dict, map_dict, empty_dict, act, last, regRet, tp_dict,
                   nkfRet, nbuilt, sigRet, otherVars>>

\* Registration and calls of GetClassOrModOf.
NextOwner ==
    \/ \E r \in StringRegistrations : InitSignatureStrings(r[1], r[2])
    \/ \E r \in ByteRegistrations : InitSignatureBytes(r[1], r[2])
    \/ \E ob \in OwnerObs : Probe_GetClassOrModOf(ob)

SpecOwner == Init /\ [][NextOwner]_vars

\* insert_snake_case_variants applied to a PropsDict of the parser, and
\* applied once more to its result.
ProbeLines ==
    { <<"d", "T", ":", "1">>, <<"d", "_", "t", ":", "2">>, <<"r", ":", "1">>,
      <<"r", ":", "2">> }

ProbeArrays ==
    {<<>>} \cup {<<x>> : x \in ProbeLines}
        \cup {<<x, y>> : x \in ProbeLines, y \in ProbeLines}
        \cup {<<x, y, z>> : x \in ProbeLines, y \in ProbeLines, z \in ProbeLines}

Probe_insert_snake_case_variants(lines) ==
    /\ ~fatal
    /\ pyside_type_init(lines).kind = "dict"
    /\ \/ /\ probe.runs = "never"
          /\ probe' = [fn |-> "insert_snake_case_variants", runs |-> "once",
                       arg |-> pyside_type_init(lines).entries,
                       once |-> insert_snake_case_variants(pyside_type_init(lines).entries),
                       out |-> insert_snake_case_variants(pyside_type_init(lines).entries)]
       \/ /\ probe.fn = "insert_snake_case_variants"
          /\ probe.runs = "once"
          /\ probe.arg = pyside_type_init(lines).entries
          /\ probe' = [probe EXCEPT !.runs = "twice",
                                    !.out = insert_snake_case_variants(probe.once)]
    /\ UNCHANGED <<arg_dict, map_dict, empty_dict, act, last, regRet, tp_dict,
                   nkfRet, nbuilt, sigRet, fatal, otherVars>>

\* GetTypeKey(ob), and a second call for any entity.  A fatal error ends
\* the process in the call.
Probe_GetTypeKey(ob) ==
    /\ ~fatal
    /\ \/ /\ probe.runs = "never"
          /\ probe' = [fn |-> "GetTypeKey", runs |-> "once", arg |-> <<ob>>,
                       once |-> GetTypeKey(ob), out |-> GetTypeKey(ob)]
       \/ /\ probe.fn = "GetTypeKey"
          /\ probe.runs = "once"
          /\ probe' = [probe EXCEPT !.runs = "twice", !.arg = Append(@, ob),
                                    !.out = GetTypeKey(ob)]
    /\ fatal' = (GetTypeKey(ob) = FatalKey)
    /\ UNCHANGED <<arg_dict, map_dict, empty_dict, act, last, regRet, tp_dict,
                   nkfRet, nbuilt, sigRet, otherVars>>

NextPure ==
    \/ \E lines \in ProbeArrays : Probe_insert_snake_case_variants(lines)
    \/ \E ob \in Entities : Probe_GetTypeKey(ob)

SpecPure == Init /\ [][NextPure]_vars

\* The zero byte, which ends a C string.
NUL == "NUL"

\* Py_BuildValue("s", sig_str): the bytes of the C string, up to its end.
RECURSIVE CString(_)
CString(sig_str) ==
    IF sig_str = <<>> \/ Head(sig_str) = NUL THEN <<>>
    ELSE <<Head(sig_str)>> \o CString(Tail(sig_str))

\* _address_ptr_to_stringlist: the list of the strings of the array.
RECURSIVE _address_ptr_to_stringlist(_)
_address_ptr_to_stringlist(sig_strings) ==
    IF sig_strings = <<>> THEN <<>>
    ELSE <<CString(Head(sig_strings))>> \o _address_ptr_to_stringlist(Tail(sig_strings))

bytesToStrings_rest(data) ==
    IF data = <<>> \/ data[Len(data)] = NL THEN SplitLines(data, <<>>)
    ELSE SplitLines(Append(data, NL), <<>>)

\* bytesToStrings of a blob that expands: the array of lines.
bytesToStrings(data) == SplitLines(data, <<>>)

\* The payloads split: every sequence of up to four of a letter, a newline
\* and a zero byte.
PayloadPieces == {<<>>, <<"a">>, <<NL>>, <<NUL>>}

ProbePayloads ==
    {w \o x \o y \o z : w \in PayloadPieces, x \in PayloadPieces,
                        y \in PayloadPieces, z \in PayloadPieces}

\* A blob with the payload: of size 0 when the payload is empty.
BlobOf(payload) ==
    IF payload = <<>> THEN EmptyBlob
    ELSE [size |-> 9, corrupt |-> FALSE, payload |-> payload]

\* The first half of PySide_BuildSignatureProps for a (address, size) entry:
\* bytesToStrings and _address_ptr_to_stringlist, the list for the parser.
Probe_bytesToStrings(payload) ==
    /\ ~fatal
    /\ probe.runs = "never"
    /\ LET b == BlobOf(payload)
           data == IF NeedsExpand(b) THEN byteExpand(b).data ELSE <<>>
       IN  probe' = [fn |-> "bytesToStrings", runs |-> "once", arg |-> payload,
                     once |-> bytesToStrings(data),
                     out |-> _address_ptr_to_stringlist(bytesToStrings(data))]
    /\ UNCHANGED <<arg_dict, map_dict, empty_dict, act, last, regRet, tp_dict, nkfRet,
                   nbuilt, sigRet, fatal, otherVars>>

NextSplit == \E payload \in ProbePayloads : Probe_bytesToStrings(payload)

SpecSplit == Init /\ [][NextSplit]_vars

\* The signatures of class W with a line for the class itself.
QueryArray == << <<"d", "T", ":", "1">>, <<"W", ":", "1">> >>

QueryBlob == [size |-> 9, corrupt |-> FALSE, payload |-> <<"d", "T", ":", "1", NL, "r">>]

\* GetSignature_Wrapper(ob, modifier) up to the first call into Python: the
\* PropsDict of __objclass__ and the record under __name__.
GetSignature_Wrapper(a, ob, modifier) ==
    PropsDictCall(a, GetTypeKey(ob.cls),
                  [fn |-> "Wrapper", ob |-> ob, modifier |-> modifier])

\* A descriptor (a wrapper descriptor, a class method descriptor, a method
\* descriptor) or a static method of the type ob, and an object of a kind
\* that has no signature: a module, an instance.
QDescr(kind, ob, name) == [kind |-> kind, cls |-> ob, name |-> name, flags |-> {}]

QStaticMethod(ob, name) ==
    [kind |-> "staticmethod", cls |-> ob, name |-> name, flags |-> {"METH_STATIC"}]

QOther(kind) == [kind |-> kind, cls |-> "none", name |-> NoAttr, flags |-> {}]

\* The kinds of object get_signature_intern has a getter for.
SupportedKinds ==
    {"cfunc", "staticmethod", "method_descriptor", "type", "wrapper_descriptor",
     "classmethod_descriptor"}

\* get_signature(ob, modifier) up to the first call into Python: None for
\* a function written in Python; the getter of the kind of ob; None for
\* every other kind, for which get_signature_intern returns nullptr
\* without an error.
get_signature(a, ob, modifier) ==
    CASE ob.kind = "function" \/ ob.kind \notin SupportedKinds ->
             /\ ~fatal
             /\ act[a].pc = "idle"
             /\ sigRet' = PyNone
             /\ UNCHANGED <<arg_dict, map_dict, empty_dict, act, last, regRet,
                            tp_dict, nkfRet, nbuilt, fatal, probe, otherVars>>
      [] ob.kind = "cfunc" -> GetSignature_Function(a, ob, modifier)
      [] ob.kind \in {"staticmethod", "method_descriptor"} ->
             GetSignature_Function(a, [ob EXCEPT !.kind = "cfunc"], modifier)
      [] ob.kind = "type" -> GetSignature_TypeMod(a, ob, modifier)
      [] OTHER -> GetSignature_Wrapper(a, ob, modifier)

QueryObs ==
    { QFunc("W", <<"d", "T">>, {}), QFunc("W", <<"z">>, {}),
      QFunc("anon", <<"g">>, {}), PyFunction }

Modifiers == {NoAttr, <<"u">>, Magic_func_kind}

\* Registration and signature queries by two activations.
NextQuery ==
    \/ InitSignatureStrings("W", QueryArray)
    \/ InitSignatureBytes("W", QueryBlob)
    \/ \E a \in Activations, ob \in QueryObs, modifier \in Modifiers :
          GetSignature_Function(a, ob, modifier)
    \/ \E a \in Activations, modifier \in Modifiers :
          GetSignature_TypeMod(a, QType("W"), modifier)
    \/ \E a \in Activations : BuildProps_Expanded(a)
    \/ \E a \in Activations : BuildProps_Parsed(a)
    \/ \E a \in Activations : GetSignature_Created(a)

SpecQuery == Init /\ [][NextQuery]_vars

\* The objects of the operations that are followed to their end.
TermObs == { CFuncOb("W", <<"d", "T">>), CFuncOb("W", <<"z">>) }

\* Every operation of the bridge on one class: registration, propsFor, name
\* index lookups and signature queries, by two activations.
NextTerm ==
    \/ InitSignatureStrings("W", QueryArray)
    \/ InitSignatureBytes("W", QueryBlob)
    \/ \E a \in Activations : TypeKey_to_PropsDict(a, GetTypeKey("W"))
    \/ \E ob \in TermObs : name_key_to_func(ob)
    \/ \E a \in Activations, modifier \in {NoAttr, Magic_func_kind} :
          GetSignature_Function(a, QFunc("W", <<"d", "T">>, {}), modifier)
    \/ \E a \in Activations : BuildProps_Expanded(a)
    \/ \E a \in Activations : BuildProps_Parsed(a)
    \/ \E a \in Activations : GetSignature_Created(a)

\* The calls out of the bridge return: the decompressor, the creator of
\* signature objects, and the parser, in which no activation stays for ever.
CallsReturn ==
    \A a \in Activations :
        /\ WF_vars(BuildProps_Expanded(a))
        /\ WF_vars(GetSignature_Created(a))
        /\ []<>(act[a].pc # "parse")

SpecTerm == Init /\ [][NextTerm]_vars /\ CallsReturn

\* The classes registered with a string table and with compressed bytes,
\* and the functions looked up: a method of W and the function g of the
\* module m.
StringOwners == {"W", "W2", "U", "G", "Q", "anon"}

ByteOwners == {"V", "U", "anon"}

OwnerLookups == { CFuncOb("W", <<"d", "T">>), CFuncOb("mod", <<"g">>) }

\* Registration of classes, finalization of the module, lookups in the
\* name index and propsFor of a class.
NextReg ==
    \/ \E ob \in StringOwners : InitSignatureStrings(ob, QueryArray)
    \/ \E ob \in ByteOwners : InitSignatureBytes(ob, QueryBlob)
    \/ FinishSignatureInitialization("mod", SomeArray, 0, 0)
    \/ \E ob \in OwnerLookups : name_key_to_func_checked(ob)
    \/ TypeKey_to_PropsDict("main", GetTypeKey("W"))
    \/ BuildProps_Parsed("main")

SpecReg == Init /\ [][NextReg]_vars

\* The objects get_signature is asked about: functions, a static method
\* and descriptors of the registered class W with and without a record,
\* a function of the class U, which is not registered, the class W, a
\* function written in Python, a module and an instance.
SignatureObs ==
    { PyFunction, QOther("module"), QOther("instance"),
      QFunc("W", <<"d", "T">>, {}), QFunc("W", <<"z">>, {}), QFunc("U", <<"r">>, {}),
      QStaticMethod("W", <<"z">>), QDescr("method_descriptor", "W", <<"d", "T">>),
      QType("W"),
      QDescr("wrapper_descriptor", "W", Name_init),
      QDescr("wrapper_descriptor", "W", <<"z">>),
      QDescr("classmethod_descriptor", "U", <<"t">>) }

\* Registration of W and calls of get_signature by one activation.
NextSignature ==
    \/ InitSignatureStrings("W", QueryArray)
    \/ InitSignatureBytes("W", QueryBlob)
    \/ \E ob \in SignatureObs, modifier \in {NoAttr, <<"u">>} :
          get_signature("main", ob, modifier)
    \/ BuildProps_Expanded("main")
    \/ BuildProps_Parsed("main")
    \/ GetSignature_Created("main")

SpecSignature == Init /\ [][NextSignature]_vars

\* The functions whose kind is asked for: a function of the class W and
\* one of the module, with every combination of the flags that count.
KindObs ==
    { QFunc(ob, <<"d", "T">>, flags) :
          ob \in {"W", "mod"}, flags \in SUBSET {"METH_CLASS", "METH_STATIC"} }

\* Registration of a class and a module, and queries by one activation
\* for the signature and for the kind of their functions.
NextKind ==
    \/ InitSignatureStrings("W", QueryArray)
    \/ FinishSignatureInitialization("mod", QueryArray, 0, 0)
    \/ \E ob \in KindObs, modifier \in {NoAttr, Magic_func_kind} :
          GetSignature_Function("main", ob, modifier)
    \/ BuildProps_Parsed("main")
    \/ GetSignature_Created("main")

SpecKind == Init /\ [][NextKind]_vars

\* Imports by two activations: an import that runs inside the Python code
\* of another import.
NextImport ==
    \/ \E a \in Activations, name \in ImportNames : feature_import(a, name)
    \/ \E a \in Activations, r \in HandlerResults, has \in BOOLEAN :
          feature_import_handled(a, r, has)
    \/ \E a \in Activations, ret \in ImportResults : feature_import_imported(a, ret)
    \/ \E a \in Activations, post \in HookResults : feature_import_hooked(a, post)

SpecImport == Init /\ [][NextImport]_vars

-----------------------------------------------------------------------------
(* Vocabulary of the properties *)

WKey == GetTypeKey("W")

VKey == GetTypeKey("V")

IsDict(store, k) == k \in DOMAIN store /\ store[k].tag = "dict"

\* A result that is a PropsDict made by the parser.
IsParsed(r) == ~r.null /\ ~r.dict.static

\* In this step activation a enters PySide_BuildSignatureProps for k: it
\* calls the decompressor or the parser.
EntersBuild(a, k) ==
    act[a].pc = "idle" /\ act'[a].pc # "idle" /\ act'[a].type_key = k

\* In this step the running call of activation a returns.
BuildReturns(a) == act[a].pc # "idle" /\ act'[a].pc = "idle" /\ ~fatal'

\* In this step a registration for type key k is made.
RegistersKey(k) ==
    \/ \E r \in StringRegistrations :
          GetTypeKey(r[1]) = k /\ InitSignatureStrings(r[1], r[2])
    \/ \E r \in ByteRegistrations :
          GetTypeKey(r[1]) = k /\ InitSignatureBytes(r[1], r[2])

-----------------------------------------------------------------------------
(* Signature Store: lazy build *)

\* C1: when the last finished propsFor(k) returned a parsed PropsDict and k
\* was not registered since, a further propsFor(k) calls neither the
\* decompressor nor the parser and returns the same PropsDict.
C1_SecondCallSame ==
    [][\A k \in TypeKeys :
         IsParsed(last[k]) =>
            /\ \A a \in Activations : ~EntersBuild(a, k)
            /\ (act' = act /\ ~last'[k].null) => last'[k].dict = last[k].dict]_vars

\* C1 witness: the last propsFor(W) returned the stored PropsDict of W
\* without building anything.
C1_Witness ==
    /\ IsParsed(last[WKey])
    /\ last[WKey].src = NoBuild
    /\ DictHas(last[WKey].dict.entries, <<"d", "_", "t">>)

\* C2 as stated: once the entry of a key is a PropsDict, it is a PropsDict
\* in every later state of the running process.
C2_NeverRawAgain ==
    [][\A k \in TypeKeys :
         (IsDict(arg_dict, k) /\ ~fatal') => IsDict(arg_dict', k)]_vars

\* C2 amended: the entry of a key that is a PropsDict stays a PropsDict in
\* every step that is not a registration for that key, and no propsFor call
\* entered while it is a PropsDict calls the decompressor or the parser.
C2_DictUntilRegistered ==
    [][\A k \in TypeKeys :
         (IsDict(arg_dict, k) /\ ~fatal') =>
            /\ IsDict(arg_dict', k) \/ RegistersKey(k)
            /\ \A a \in Activations : ~EntersBuild(a, k)]_vars

\* C2 witness: the entry of W is a PropsDict that the last propsFor(W)
\* returned as stored, after V was registered and while V is still raw.
C2_Witness ==
    /\ IsDict(arg_dict, WKey)
    /\ ~last[WKey].null /\ last[WKey].dict = arg_dict[WKey]
    /\ last[WKey].src = NoBuild
    /\ VKey \in DOMAIN arg_dict /\ arg_dict[VKey].tag = "addr"

\* C3 as stated: when the parser returns no result and no error, the call
\* returns an empty PropsDict and the key is a PropsDict in the store.
C3_EmptyResultCached ==
    [][\A a \in Activations :
         (BuildReturns(a) /\ act[a].pc = "parse"
            /\ pyside_type_init(act[a].strings).kind = "null") =>
               /\ ~last'[act[a].type_key].null
               /\ last'[act[a].type_key].dict.entries = <<>>
               /\ IsDict(arg_dict', act[a].type_key)]_vars

\* C4: a build whose decompression fails returns nullptr with the error
\* set, without calling the parser and without changing the store.
C4_DecompressFailure ==
    [][\A a \in Activations :
         (act[a].pc = "expand" /\ act[a].numkey.corrupt /\ act'[a] # act[a] /\ ~fatal') =>
               /\ act'[a].pc = "idle"
               /\ last'[act[a].type_key].null
               /\ last'[act[a].type_key].err = "ValueError"
               /\ arg_dict' = arg_dict]_vars

\* C4 witness: propsFor(W) has failed with the unpack error and the entry
\* of W is still the damaged compressed blob.
C4_Witness ==
    /\ last[WKey].null /\ last[WKey].err = "ValueError"
    /\ WKey \in DOMAIN arg_dict
    /\ arg_dict[WKey].tag = "tuple" /\ arg_dict[WKey].corrupt

\* C5: for a compressed blob of size 0 the decompressor is never called,
\* the parser gets the empty list, and the key resolves to an empty PropsDict.
C5_EmptyPayload ==
    [][\A a \in Activations :
         ~fatal' =>
            /\ act'[a].pc = "expand" => act'[a].numkey.size > 0
            /\ (act[a].pc = "idle" /\ act'[a].pc # "idle"
                  /\ act'[a].numkey.tag = "tuple" /\ act'[a].numkey.size = 0) =>
                     act'[a].pc = "parse" /\ act'[a].strings = <<>>
            /\ (BuildReturns(a) /\ act[a].numkey.tag = "tuple" /\ act[a].numkey.size = 0) =>
                     /\ last'[act[a].type_key] =
                           Returned(act[a].type_key, DictEntry(<<>>), act[a].numkey)
                     /\ arg_dict'[act[a].type_key] = DictEntry(<<>>)]_vars

\* C5 witness: propsFor(W) built from the size-0 blob and W is resolved to
\* an empty PropsDict.
C5_Witness ==
    /\ last[WKey] = Returned(WKey, DictEntry(<<>>), TupleEntry(EmptyBlob))
    /\ arg_dict[WKey] = DictEntry(<<>>)

-----------------------------------------------------------------------------
(* Signature Store: registration *)

\* C6: after a registration that succeeds, the entry of the owner's type
\* key is the blob just registered, whatever was stored before.
C6_RegisterReplaces ==
    [][/\ \A r \in StringRegistrations :
            (InitSignatureStrings(r[1], r[2]) /\ GetTypeKey(r[1]) \in TypeKeys) =>
                regRet'.ret = 0 /\ arg_dict'[GetTypeKey(r[1])] = AddrEntry(r[2])
       /\ \A r \in ByteRegistrations :
            (InitSignatureBytes(r[1], r[2]) /\ GetTypeKey(r[1]) \in TypeKeys) =>
                regRet'.ret = 0 /\ arg_dict'[GetTypeKey(r[1])] = TupleEntry(r[2])]_vars

\* C6 witness: W holds a registered compressed blob while V, registered
\* and looked up before, holds its PropsDict.
C6_Witness ==
    /\ WKey \in DOMAIN arg_dict /\ arg_dict[WKey].tag = "tuple"
    /\ IsDict(arg_dict, VKey)
    /\ regRet.ret = 0

\* C7: a registration for an owner whose type key cannot be derived
\* reports failure and changes neither arg_dict nor map_dict.
C7_NoKeyNoOp ==
    [][/\ \A r \in StringRegistrations :
            (InitSignatureStrings(r[1], r[2]) /\ GetTypeKey(r[1]) = NullKey) =>
                /\ regRet' = [ret |-> -1, err |-> "ImportError"]
                /\ arg_dict' = arg_dict /\ map_dict' = map_dict
       /\ \A r \in ByteRegistrations :
            (InitSignatureBytes(r[1], r[2]) /\ GetTypeKey(r[1]) = NullKey) =>
                /\ regRet' = [ret |-> -1, err |-> "ImportError"]
                /\ arg_dict' = arg_dict /\ map_dict' = map_dict]_vars

\* C7 witness: a registration has failed while the store holds W.
C7_Witness ==
    /\ regRet.ret = -1
    /\ WKey \in DOMAIN arg_dict /\ WKey \in DOMAIN map_dict
    /\ NullKey \notin DOMAIN map_dict

-----------------------------------------------------------------------------
(* Publication of built structures *)

\* C8: every PropsDict in the store has, for each of its keys, the entry of
\* the snake case spelling of that key.
C8_PublishedComplete ==
    \A k \in DOMAIN arg_dict :
        arg_dict[k].tag = "dict" =>
            \A i \in 1..Len(arg_dict[k].entries) :
                DictHas(arg_dict[k].entries,
                        getSnakeCaseName(arg_dict[k].entries[i].key))

\* C8 witness: one activation is inside the parser for W while the store
\* already shows the PropsDict of W, with the variant d_t of dT.
C8_Witness ==
    \E a \in Activations :
        /\ act[a].pc = "parse" /\ act[a].type_key = WKey
        /\ IsDict(arg_dict, WKey)
        /\ DictHas(arg_dict[WKey].entries, <<"d", "T">>)
        /\ DictHas(arg_dict[WKey].entries, <<"d", "_", "t">>)

\* The names a member entry of the index can have.
MemberNames(ob) ==
    {tp_methods(ob)[i].ml_name : i \in 1..Len(tp_methods(ob))}
        \cup {getSnakeCaseName(tp_methods(ob)[i].ml_name) : i \in 1..Len(tp_methods(ob))}
        \cup {o.name : o \in LookupObs}

HasMember(ob, name) == PyTuple2(GetTypeKey(ob), PyStr(name)) \in DOMAIN map_dict

-----------------------------------------------------------------------------
(* Signature queries *)

\* In this step the query of activation a, which found the PropsDict of its
\* key built when it was entered, returns from CreateSignature.
QueryOnBuiltReturns(a) ==
    /\ act[a].pc = "create" /\ act[a].numkey = NoBuild
    /\ act'[a].pc = "idle" /\ ~fatal'

\* d2 is d1 but for the signature object that the record of name may hold
\* under the key.
SameButCached(d1, d2, name, key) ==
    /\ d2.tag = "dict" /\ d1.tag = "dict"
    /\ Len(d2.entries) = Len(d1.entries)
    /\ \A i \in 1..Len(d1.entries) :
          /\ d2.entries[i].key = d1.entries[i].key
          /\ \/ d2.entries[i].val = d1.entries[i].val
             \/ /\ d1.entries[i].key = name
                /\ d2.entries[i].val =
                      [d1.entries[i].val EXCEPT !.cached = d2.entries[i].val.cached]
                /\ CachedKeys(d2.entries[i].val) =
                      CachedKeys(d1.entries[i].val) \cup {key}
                /\ \A c \in d1.entries[i].val.cached :
                      c[1] # key => c \in d2.entries[i].val.cached

-----------------------------------------------------------------------------
(* The name index *)

\* C12 as stated: build_name_key_to_func runs at most once for a type,
\* whatever names of the type are looked up afterwards.
C12_BuiltOnce == \A ob \in Types : nbuilt[ob] # "again"

\* C13: once build_name_key_to_func has run for a type, map_dict has for
\* every method of the type an entry under the declared name and one under
\* the snake case name, and each is a PyCFunction whose self is the type.
C13_BothSpellings ==
    \A ob \in Types :
        nbuilt[ob] # "never" =>
            \A i \in 1..Len(tp_methods(ob)) :
                \A name \in {tp_methods(ob)[i].ml_name,
                             getSnakeCaseName(tp_methods(ob)[i].ml_name)} :
                    /\ HasMember(ob, name)
                    /\ SubSeq(map_dict[PyTuple2(GetTypeKey(ob), PyStr(name))], 1, 2)
                          = <<"cfunc", ob>>

\* C13 witness: the index of V was built and holds the static method s and
\* the method dT under its snake case name.
C13_Witness ==
    /\ nbuilt["V"] = "once"
    /\ HasMember("V", <<"s">>) /\ HasMember("V", <<"d", "T">>)
    /\ map_dict[PyTuple2(VKey, PyStr(<<"s">>))] = PyCFunc("V", <<"s">>)

\* C14 as stated: the entry of the name index under the declared name of a
\* method has the implementation of that method.
C14_NoShadowing ==
    \A ob \in Types :
        \A i \in 1..Len(tp_methods(ob)) :
            HasMember(ob, tp_methods(ob)[i].ml_name) =>
                map_dict[PyTuple2(GetTypeKey(ob), PyStr(tp_methods(ob)[i].ml_name))]
                    = PyCFunc(ob, tp_methods(ob)[i].ml_name)

-----------------------------------------------------------------------------
(* insert_snake_case_variants *)

ProbedInsert(runs) == probe.fn = "insert_snake_case_variants" /\ probe.runs = runs

\* C15: insert_snake_case_variants applied twice gives the keys and the
\* records that it gives applied once.
C15_InsertIdempotent == ProbedInsert("twice") => probe.out = probe.once

\* C15 witness: applied twice to a dict with dT and an overload family r,
\* whose first run added d_t.
C15_Witness ==
    /\ ProbedInsert("twice")
    /\ DictKeys(probe.arg) = {<<"d", "T">>, <<"r">>}
    /\ DictKeys(probe.once) = {<<"d", "T">>, <<"r">>, <<"d", "_", "t">>}
    /\ DictGet(probe.arg, <<"r">>).isMulti

\* C16: every key the dict had before insert_snake_case_variants has the
\* same record after it, also a key that is the snake case name of a key.
C16_InsertKeepsEntries ==
    ProbedInsert("once") =>
        /\ Len(probe.once) >= Len(probe.arg)
        /\ \A i \in 1..Len(probe.arg) : probe.once[i] = probe.arg[i]

\* C16 witness: the dict had d_t before dT, and d_t is the snake case name
\* of dT.
C16_Witness ==
    /\ ProbedInsert("once")
    /\ Len(probe.arg) = 2
    /\ probe.arg[1].key = <<"d", "_", "t">> /\ probe.arg[2].key = <<"d", "T">>
    /\ probe.once = probe.arg

\* The record rec2 shares no object with rec1 and has the name new_name.
DeepCopyOf(rec1, rec2, new_name) ==
    /\ rec2.obj # rec1.obj
    /\ rec2.sub # rec1.sub
    /\ rec2.isMulti = rec1.isMulti
    /\ IF rec1.isMulti
       THEN /\ Len(rec2.multi) = Len(rec1.multi)
            /\ \A i \in 1..Len(rec1.multi) :
                  /\ rec2.multi[i].obj # rec1.multi[i].obj
                  /\ rec2.multi[i].sub # rec1.multi[i].sub
                  /\ rec2.multi[i].name = new_name
       ELSE rec2.name = new_name

\* C17 as stated: every entry insert_snake_case_variants adds is a deep
\* copy, renamed, of the record of the key it is the snake case name of.
C17_InsertDeepCopies ==
    ProbedInsert("once") =>
        \A i \in 1..Len(probe.arg) :
            ~DictHas(probe.arg, getSnakeCaseName(probe.arg[i].key)) =>
                DeepCopyOf(probe.arg[i].val,
                           DictGet(probe.once, getSnakeCaseName(probe.arg[i].key)),
                           getSnakeCaseName(probe.arg[i].key))

-----------------------------------------------------------------------------
(* GetTypeKey *)

ProbedTypeKey == probe.fn = "GetTypeKey"

\* The entity of the last GetTypeKey call.
KeyedOb == probe.arg[Len(probe.arg)]

\* C18: GetTypeKey gives (module, qualname) for an entity that has both,
\* the plain name alone for an entity without __module__ that has a name,
\* a fatal error for an entity with __module__ and without __qualname__;
\* two calls for entities with equal attributes give equal keys.
C18_TypeKeyOfAttributes ==
    ProbedTypeKey =>
        /\ (Attr_module(KeyedOb) # NoAttr /\ Attr_qualname(KeyedOb) # NoAttr) =>
               /\ ~fatal
               /\ probe.out = PyTuple2(PyStr(Attr_module(KeyedOb)),
                                       PyStr(Attr_qualname(KeyedOb)))
        /\ (Attr_module(KeyedOb) = NoAttr /\ Attr_name(KeyedOb) # NoAttr) =>
               /\ ~fatal
               /\ probe.out = PyStr(Attr_name(KeyedOb))
        /\ (Attr_module(KeyedOb) # NoAttr /\ Attr_qualname(KeyedOb) = NoAttr) => fatal
        /\ ( /\ probe.runs = "twice"
             /\ Attr_module(probe.arg[1]) = Attr_module(probe.arg[2])
             /\ Attr_qualname(probe.arg[1]) = Attr_qualname(probe.arg[2])
             /\ Attr_name(probe.arg[1]) = Attr_name(probe.arg[2]) ) =>
               probe.out = probe.once

\* C18 witness: the nested class N got (m, W.N), then the module m got the
\* plain name m.
C18_Witness ==
    /\ ProbedTypeKey
    /\ probe.arg = <<"N", "mod">>
    /\ probe.once = PyTuple2(PyStr(<<"m">>), PyStr(<<"W", ".", "N">>))
    /\ probe.out = PyStr(<<"m">>)

-----------------------------------------------------------------------------
(* GetClassOrModOf *)

\* The class or module a C function belongs to: its self when that is a
\* class or module, the class of its self, or the class that declares it.
OwnerOfFunc(f) ==
    IF f.cls = NoSelf THEN f.id[2]
    ELSE IF PyType_Check(f.cls) \/ PyModule_Check(f.cls) THEN f.cls
    ELSE Py_TYPE(f.cls)

\* The class that declares a function without self is registered.
OwnerRegistered(f) == GetTypeKey(f.id[2]) \in DOMAIN map_dict

\* What GetClassOrModOf gives for a C function.
OwnerOrNone(f) ==
    IF f.cls = NoSelf /\ ~OwnerRegistered(f) THEN "NoneType" ELSE OwnerOfFunc(f)

\* The outcome for the kinds other than C function and static method.
OtherKinds(ob) ==
    /\ ob.kind = "type" => (probe'.out = ob.cls /\ ~fatal')
    /\ ob.kind \in {"method_descriptor", "wrapper_descriptor"} =>
           (probe'.out = ob.objclass /\ ~fatal')
    /\ ob.kind \notin {"type", "cfunc", "staticmethod", "method_descriptor",
                       "wrapper_descriptor"} => fatal'

\* C19 as stated: GetClassOrModOf gives a class itself, for a C function
\* its owning class or module, for a static method the owner of the wrapped
\* function, for a descriptor its declaring class, and is fatal for any
\* other kind.
C19_OwnerOfEveryKind ==
    [][\A ob \in OwnerObs :
          Probe_GetClassOrModOf(ob) =>
              /\ OtherKinds(ob)
              /\ ob.kind = "cfunc" => (probe'.out = OwnerOfFunc(ob) /\ ~fatal')
              /\ ob.kind = "staticmethod" =>
                     (probe'.out = OwnerOfFunc(ob.func) /\ ~fatal')]_vars

\* C19 amended: as C19, but a C function without self whose declaring class
\* is not registered, and a static method wrapping one, give type(None).
C19_OwnerOrNoneType ==
    [][\A ob \in OwnerObs :
          Probe_GetClassOrModOf(ob) =>
              /\ OtherKinds(ob)
              /\ ob.kind = "cfunc" => (probe'.out = OwnerOrNone(ob) /\ ~fatal')
              /\ ob.kind = "staticmethod" =>
                     (probe'.out = OwnerOrNone(ob.func) /\ ~fatal')]_vars

\* C19 witness: after the registration of V, the static method V.s gave V.
C19_Witness ==
    /\ probe.fn = "GetClassOrModOf"
    /\ probe.arg = <<StaticMethodOb("V", <<"s">>)>>
    /\ GetTypeKey("V") \in DOMAIN map_dict
    /\ probe.out = "V"

-----------------------------------------------------------------------------
(* Module finalization *)

\* C20 as stated: after a failed PySide_PatchTypes neither
\* FinishSignatureInitialization nor FinishSignatureInitBytes returns to
\* its caller: the failure is fatal.
C20_PatchFailureFatal ==
    [][\A module \in Modules, finished \in finish_import :
          /\ FinishSignatureInitialization(module, SomeArray, -1, finished) => fatal'
          /\ FinishSignatureInitBytes(module, EmptyBlob, -1, finished) => fatal']_vars

-----------------------------------------------------------------------------
(* The patcher *)

\* C21 as stated: a second run of add_more_getsets for a type with the same
\* getset table leaves the namespace of the type and the saved __doc__
\* descriptor as the first run left them, and fails no assertion.
C21_SecondInstallSkips ==
    [][\A ob \in PatchTypes, gsp \in GetsetTables, asserts \in BOOLEAN :
          (add_more_getsets(ob, gsp, asserts) /\ <<ob, gsp>> \in getsets_done) =>
              /\ ~fatal'
              /\ tp_dict'[ob] = tp_dict[ob]
              /\ sel_dict'[ob] = sel_dict[ob]
              /\ doc_descr'[ob] = doc_descr[ob]]_vars

\* C22 as stated: once the namespace of a type is replaced, registration
\* and the patcher write into the original namespace and never into the
\* replacement.
C22_WritesGoToOriginal ==
    [][\A ob \in AllTypes :
          (sel_dict[ob].switched /\ ~fatal') => sel_dict'[ob] = sel_dict[ob]]_vars

-----------------------------------------------------------------------------
(* Properties *)

\* A slot holds a callable.
HasCallable(f) == f # Py_nullptr /\ f # Py_None

\* C23 as stated: set(property, instance, value) calls the setter with
\* (instance, value) when there is one, else takes the reset path when there
\* is a resetter, else fails with the read-only error and calls nothing.
C23_SetDispatch ==
    [][\A id \in PropIds, raises \in BOOLEAN :
          PropertySetValue(id, "v", raises) =>
              IF HasCallable(heap[id].fset)
              THEN propRet'.calls = << [f |-> heap[id].fset, args |-> <<"inst", "v">>] >>
              ELSE IF HasCallable(heap[id].freset)
              THEN propRet'.calls = << [f |-> heap[id].freset, args |-> <<"inst">>] >>
              ELSE propRet'.calls = <<>> /\ propRet'.err = "AttributeError"]_vars

\* C24: a getter/setter/resetter/deleter modifier changes no Property
\* object that exists; the new object has the given callable as the
\* attribute of the modified slot and the attributes of the old object for
\* the other slots.
C24_ModifierCopies ==
    [][\A old \in PropIds, id \in PropIds, slot \in PropSlots, f \in ModifierArgs :
          Modifier(old, id, slot, f) =>
              /\ \A x \in PropIds : heap[x].alive => heap'[x] = heap[x]
              /\ heap'[id].alive =>
                    /\ HasCallable(f) => qProperty_f(heap'[id], slot) = f
                    /\ \A k \in PropSlots \ {slot} :
                          qProperty_f(heap'[id], k) = qProperty_f(heap[old], k)]_vars

\* C24 witness: p1 has a getter only, p2 is p1.setter(h), p3 is
\* p2.deleter(h), and p1 and p2 are as they were made.
C24_Witness ==
    /\ heap["p1"].alive /\ heap["p2"].alive /\ heap["p3"].alive
    /\ heap["p1"].fget = "g" /\ heap["p1"].fset = Py_nullptr
    /\ heap["p2"].fget = "g" /\ heap["p2"].fset = "h" /\ heap["p2"].fdel = Py_None
    /\ heap["p3"].fget = "g" /\ heap["p3"].fset = "h" /\ heap["p3"].fdel = "h"

\* C25: metaCall with WriteProperty for a property whose type name has no
\* converter sets the error that reports an unknown type (StopIteration)
\* and calls nothing; it sets no other error and does not return without one.
C25_UnknownTypeReported ==
    [][\A id \in PropIds, raises \in BOOLEAN :
          (PropertyMetaCall(id, "WriteProperty", raises)
              /\ ~SpecificConverter(heap[id].typeName)) =>
              propRet'.err = "StopIteration" /\ propRet'.calls = <<>>]_vars

\* C25 witness: WriteProperty on a property of the type name Foo that has a
\* setter has set StopIteration.
C25_Witness ==
    /\ heap["p1"].alive /\ heap["p1"].typeName = "Foo" /\ heap["p1"].fset = "s"
    /\ ~heap["p2"].alive
    /\ propRet.fn = "WriteProperty"
    /\ propRet.err = "StopIteration"

-----------------------------------------------------------------------------
(* Slots *)

\* The Slot object id is applied as a decorator: for the first time since
\* Slot(...) made it.
Decorates(id, callback) ==
    slotCall(id, callback) /\ slot_data[id].uses = "ready" /\ PyCallable_Check(callback)

\* The last entry of the slot signature list of a callable.
LastSignature(attr) == attr.list[Len(attr.list)]

IsSignature(sig) ==
    /\ Len(sig) >= 5
    /\ sig[1] \in {"void", "int", ""}
    /\ sig[2] = " "
    /\ sig[4] = "("
    /\ sig[Len(sig)] = ")"

-----------------------------------------------------------------------------
(* The split of a payload *)

\* The positions of the newlines of a payload, and of its i-th newline (0
\* for i = 0).
NewlinesOf(payload) == {p \in 1..Len(payload) : payload[p] = NL}

NewlineAt(payload, i) ==
    IF i = 0 THEN 0
    ELSE CHOOSE p \in NewlinesOf(payload) :
            Cardinality({q \in NewlinesOf(payload) : q <= p}) = i

\* The bytes between the (i-1)-th and the i-th newline.
Between(payload, i) ==
    SubSeq(payload, NewlineAt(payload, i - 1) + 1, NewlineAt(payload, i) - 1)

\* The strings, each followed by a newline, one after the other.
RECURSIVE JoinLines(_)
JoinLines(strings) ==
    IF strings = <<>> THEN <<>>
    ELSE Head(strings) \o <<NL>> \o JoinLines(Tail(strings))

HasNUL(payload) == \E p \in 1..Len(payload) : payload[p] = NUL

Split == probe.fn = "bytesToStrings" /\ probe.runs = "once"

\* C29 as stated: for every payload the list has one string per newline,
\* the i-th being the bytes between the (i-1)-th and the i-th newline, and
\* the strings, each followed by a newline, make up the whole payload.
C29_SplitRoundTrip ==
    Split =>
        /\ Len(probe.out) = Cardinality(NewlinesOf(probe.arg))
        /\ \A i \in 1..Len(probe.out) : probe.out[i] = Between(probe.arg, i)
        /\ JoinLines(probe.out) = probe.arg

\* C29 amended: the list has one string per newline, in payload order; for
\* a payload without zero bytes the i-th string is the bytes between the
\* (i-1)-th and the i-th newline, and when such a payload is empty or ends
\* with a newline the strings, each followed by a newline, make up the whole
\* payload.
C29_SplitAtNewlines ==
    Split =>
        /\ Len(probe.out) = Cardinality(NewlinesOf(probe.arg))
        /\ ~HasNUL(probe.arg) =>
              /\ \A i \in 1..Len(probe.out) : probe.out[i] = Between(probe.arg, i)
              /\ (probe.arg = <<>> \/ probe.arg[Len(probe.arg)] = NL) =>
                    JoinLines(probe.out) = probe.arg

\* C29 witness: a payload of two lines, the second one empty.
C29_Witness ==
    /\ Split
    /\ probe.arg = <<"a", "a", NL, NL>>
    /\ probe.out = << <<"a", "a">>, <<>> >>

-----------------------------------------------------------------------------
(* The signature cache *)

\* The signature queries made.
Queries ==
    {[fn |-> "Function", ob |-> ob, modifier |-> modifier] :
        ob \in QueryObs, modifier \in Modifiers}
    \cup {[fn |-> "TypeMod", ob |-> QType("W"), modifier |-> modifier] :
            modifier \in Modifiers}

\* In this step activation a makes the query q and finds the PropsDict of
\* its key built, with a record for the name.
QueryFindsRecord(a, q) ==
    /\ \/ q.fn = "Function" /\ GetSignature_Function(a, q.ob, q.modifier)
       \/ q.fn = "TypeMod" /\ GetSignature_TypeMod(a, q.ob, q.modifier)
    /\ q.ob.kind # "function"
    /\ GetTypeKey(q.ob.cls) # NullKey
    /\ IsDict(arg_dict, GetTypeKey(q.ob.cls))
    /\ DictHas(arg_dict[GetTypeKey(q.ob.cls)].entries, q.ob.name)

\* The record the query q finds.
RecordOf(q) == DictGet(arg_dict[GetTypeKey(q.ob.cls)].entries, q.ob.name)

\* In this step activation a returns from CreateSignature with an object
\* for the record it holds, which is still the record in the store.
CreatorStores(a) ==
    /\ GetSignature_Created(a)
    /\ act[a].live
    /\ CreateSignature(act[a].query.ob.name, act[a].key) # NullKey

\* C30 as stated: the signature object is created at most once for a record
\* and a key: the object a record holds under a key stays the one that
\* later queries return, no creator stores another in its place.
C30_CreatedOnce ==
    [][\A a \in Activations :
          CreatorStores(a) =>
              LET value == CachedValue(RecordOf(act[a].query), act[a].key)
              IN  value # NullKey =>
                      /\ sigRet' = value
                      /\ arg_dict' = arg_dict]_vars

\* C30 amended: a query that finds a signature object in the record under
\* its key returns that object, calls no creator and leaves the store alone;
\* the object is the one stored last, a creator that returns stores its own
\* object whether the record holds one or not; a query for the func-kind
\* name returns the kind, never calls the creator and writes nothing.
C30_CachedNoCreate ==
    [][/\ \A a \in Activations, q \in Queries :
             QueryFindsRecord(a, q) =>
                 LET key == SignatureKey(FuncKind(q), q.modifier)
                 IN  /\ (q.modifier # Magic_func_kind
                            /\ CachedValue(RecordOf(q), key) # NullKey) =>
                           /\ sigRet' = CachedValue(RecordOf(q), key)
                           /\ act'[a].pc = "idle"
                           /\ arg_dict' = arg_dict
                     /\ q.modifier = Magic_func_kind =>
                           /\ sigRet' = PyStr(FuncKind(q))
                           /\ act'[a].pc = "idle"
                           /\ arg_dict' = arg_dict
       /\ \A a \in Activations :
             /\ act'[a].pc = "create" => act'[a].query.modifier # Magic_func_kind
             /\ CreatorStores(a) =>
                   /\ sigRet' = SignatureObject(a, CreateSignature(act[a].query.ob.name,
                                                                   act[a].key))
                   /\ CachedValue(DictGet(arg_dict'[act[a].type_key].entries,
                                          act[a].query.ob.name), act[a].key) = sigRet'
      ]_vars

\* C30 witness: the record of dT holds a signature object, nobody is inside
\* a call, and the last query, for the func-kind name, returned the kind.
C30_Witness ==
    /\ IsDict(arg_dict, WKey)
    /\ DictHas(arg_dict[WKey].entries, <<"d", "T">>)
    /\ CachedKeys(DictGet(arg_dict[WKey].entries, <<"d", "T">>)) = {PyStr(<<"method">>)}
    /\ \A a \in Activations : act[a].pc = "idle"
    /\ sigRet = PyStr(<<"method">>)

-----------------------------------------------------------------------------
(* Termination *)

\* The order of the places of an operation: it goes on from the call of the
\* decompressor to that of the parser to that of the creator.
PcRank(pc) ==
    CASE pc = "idle" -> 0
      [] pc = "expand" -> 1
      [] pc = "parse" -> 2
      [] pc = "create" -> 3

\* C28: every operation ends, given that the decompressor, the parser and
\* the creator return: an activation inside an operation is outside of it
\* later on, and no operation goes back to a place it has left, it moves on
\* or returns.
C28_OperationsTerminate ==
    /\ \A a \in Activations : (act[a].pc # "idle") ~> (act[a].pc = "idle")
    /\ [][\A a \in Activations :
             act'[a].pc # act[a].pc =>
                 \/ act'[a].pc = "idle"
                 \/ PcRank(act'[a].pc) > PcRank(act[a].pc)]_vars

\* C28 witness: a compressed registration was followed through the
\* decompressor, the parser and the creator, the name index was built, and
\* every operation has returned.
C28_Witness ==
    /\ \A a \in Activations : act[a].pc = "idle"
    /\ IsDict(arg_dict, WKey)
    /\ last[WKey].src = TupleEntry(QueryBlob)
    /\ sigRet # PyNone /\ sigRet # PyStr(<<"method">>)
    /\ nkfRet # PyNone

-----------------------------------------------------------------------------
(* The owner map *)

\* In this step the class or module ob is registered under its type key.
Registers(ob) ==
    \/ ob \in StringOwners /\ InitSignatureStrings(ob, QueryArray)
    \/ ob \in ByteOwners /\ InitSignatureBytes(ob, QueryBlob)
    \/ ob = "mod" /\ FinishSignatureInitialization("mod", SomeArray, 0, 0)

\* C31: every type key of the store has an entry in the owner map, which a
\* registration under the key sets to the class or module registered and
\* which no other step changes.
C31_OwnerOfStoredKey ==
    [][/\ \A k \in DOMAIN arg_dict' : k \in DOMAIN map_dict'
       /\ \A ob \in StringOwners \cup ByteOwners \cup {"mod"} :
             (Registers(ob) /\ GetTypeKey(ob) # NullKey /\ ~fatal') =>
                 /\ GetTypeKey(ob) \in DOMAIN arg_dict'
                 /\ map_dict'[GetTypeKey(ob)] = PyObj(ob)
       /\ \A k \in DOMAIN arg_dict :
             (k \in DOMAIN map_dict' /\ map_dict'[k] # map_dict[k]) =>
                 \E ob \in StringOwners \cup ByteOwners \cup {"mod"} :
                     Registers(ob) /\ GetTypeKey(ob) = k]_vars

\* C31 witness: W2 was registered after W under the key of W, the module
\* is registered, and the PropsDict of the key is built.
C31_Witness ==
    /\ IsDict(arg_dict, WKey)
    /\ map_dict[WKey] = PyObj("W2")
    /\ GetTypeKey("mod") \in DOMAIN arg_dict
    /\ map_dict[GetTypeKey("mod")] = PyObj("mod")

(* C32: the assertion of name_key_to_func holds in every reachable state:  *)
(* whenever a lookup finds no entry under the member key and goes into the *)
(* lazy initialization, the object under the owner's type key is a class,  *)
(* for a module-level function of a finalized module too.                  *)
C32_LazyInitOfType ==
    \A ob \in OwnerLookups :
        LazyInit(ob) => PyType_Check(LazyInitType(ob))

\* What name_key_to_func finds under the member key of ob before any lazy
\* initialization.
MemberLookup(map, ob) ==
    IF compute_name_key(ob) \in DOMAIN map THEN map[compute_name_key(ob)] ELSE PyNone

\* The module-level functions that are looked up.
ModuleFunctionObs == { ob \in OwnerLookups : PyModule_Check(GetClassOrModOf(ob)) }

\* C33: keys of different kinds never collide in the owner map: the type
\* key of a registered class is never the member key of a module-level
\* function, so the registration of a class never changes what a member
\* lookup finds, and building a name index never changes the owner under
\* a type key.
C33_KeyKindsDisjoint ==
    [][/\ \A c \in StringOwners \cup ByteOwners :
             (PyType_Check(c) /\ Registers(c) /\ ~fatal') =>
                 \A f \in ModuleFunctionObs :
                     /\ GetTypeKey(c) # compute_name_key(f)
                     /\ MemberLookup(map_dict', f) = MemberLookup(map_dict, f)
       /\ \A ob \in OwnerLookups :
             (name_key_to_func_checked(ob) /\ ~fatal') =>
                 \A k \in DOMAIN arg_dict :
                     k \in DOMAIN map_dict' /\ map_dict'[k] = map_dict[k]]_vars

(* Static and hidden methods *)

Overload == <<".", "o", "v", "e", "r", "l", "o", "a", "d">>

\* What a registration of ob that went from the namespace dict to the
\* namespace dict' and the owner map map has done for the method meth.
MethodMapped(ob, meth, dict, dict2, map) ==
    LET name == meth.ml_name
        cfunc == PyCFunc(ob, name)
        special == PyTuple2(cfunc, PyStr(<<"o", "v", "e", "r", "l", "o", "a", "d">>))
    IN  /\ name \in DOMAIN dict
        /\ IF dict[name] = (IF meth.static THEN StaticMethod(cfunc) ELSE MethodDescr(ob, name))
           THEN meth.static =>
                    cfunc \in DOMAIN map /\ map[cfunc] = PyObj(ob)
           ELSE /\ (name \o Overload) \in DOMAIN dict2
                /\ dict2[name \o Overload] =
                       (IF meth.static THEN StaticMethod(cfunc) ELSE MethodDescr(ob, name))
                /\ PyStr(name \o Overload) \in DOMAIN map
                /\ map[PyStr(name \o Overload)] = PyObj(ob)
                /\ meth.static => special \in DOMAIN map /\ map[special] = PyObj(ob)
                /\ dict2[name] = dict[name]

\* InitSignatureStrings or InitSignatureBytes of the type ob succeeds.
RegistersType(ob) ==
    /\ ob \in AllTypes
    /\ Registers(ob)
    /\ ~fatal'
    /\ regRet'.ret >= 0
    /\ regRet'.err = "none"

\* C34: after a registration of a type that succeeded, every method of its
\* method table that is the attribute of its name has, when static, its
\* function mapped to the type; every hidden method is in the namespace
\* under '<name>.overload' as a descriptor of the method, the owner map has
\* '<name>.overload' (and, when static, (function, 'overload')) mapped to
\* the type, and the hiding attribute is still in place.
C34_MethodsMapped ==
    [][\A ob \in StringOwners \cup ByteOwners :
          RegistersType(ob) =>
              \A i \in DOMAIN tp_methods(ob) :
                  MethodMapped(ob, tp_methods(ob)[i], tp_dict[ob], tp_dict'[ob], map_dict')]_vars

\* C34 witness: U, with a hidden method and a hidden static method, and V,
\* with a static method of its own, are registered.
C34_Witness ==
    /\ ~fatal
    /\ regRet.err = "none"
    /\ PyStr(<<"t">> \o Overload) \in DOMAIN map_dict
    /\ map_dict[PyStr(<<"t">> \o Overload)] = PyObj("U")
    /\ PyStr(<<"r">> \o Overload) \in DOMAIN map_dict
    /\ tp_dict["U"][<<"t">>] = OtherAttr
    /\ PyCFunc("V", <<"s">>) \in DOMAIN map_dict
    /\ map_dict[PyCFunc("V", <<"s">>)] = PyObj("V")

\* The hidden methods of ob that a registration has opened: those the
\* namespace holds under '<name>.overload'.
OpenedMethods(ob) ==
    { tp_methods(ob)[i].ml_name : i \in DOMAIN tp_methods(ob) } \cap
    { name \in {<<"r">>, <<"t">>, <<"q">>, <<"s">>, <<"d", "T">>, <<"d", "_", "t">>} :
          (name \o Overload) \in DOMAIN tp_dict[ob] }

\* C35: for every registered type with a hidden method m, the owner map's
\* entry '<m>.overload' names that type in every state after the
\* registration, also after the registration of other types with a hidden
\* method of the same name.
C35_OverloadOwner ==
    \A ob \in AllTypes :
        \A name \in OpenedMethods(ob) :
            /\ PyStr(name \o Overload) \in DOMAIN map_dict
            /\ map_dict[PyStr(name \o Overload)] = PyObj(ob)

\* C36: InitSignatureStrings and InitSignatureBytes return a negative value
\* exactly when they leave an ImportError set: a return value that is not
\* negative means that the blob is registered, the static and hidden
\* methods are mapped and no error is pending.
C36_ReturnTellsError ==
    [][\A ob \in StringOwners \cup ByteOwners :
          (Registers(ob) /\ ~fatal') =>
              /\ (regRet'.ret < 0) <=> (regRet'.err = "ImportError")
              /\ (regRet'.ret >= 0) =>
                    /\ regRet'.err = "none"
                    /\ GetTypeKey(ob) \in DOMAIN arg_dict'
                    /\ \A i \in DOMAIN tp_methods(ob) :
                          MethodMapped(ob, tp_methods(ob)[i], tp_dict[ob], tp_dict'[ob], map_dict')]_vars

(* Module finalization, the two blob forms *)

\* C37: module finalization behaves the same for both blob forms: a call of
\* one form returns the value and leaves the pending error that the other
\* form gives for the same results of patching and of the module
\* registration, and neither registers the module when patching fails.
C37_FinishFormsAgree ==
    [][\A module \in Modules, patched \in PySide_PatchTypes, finished \in finish_import :
          /\ FinishSignatureInitialization(module, SomeArray, patched, finished) =>
                /\ regRet' = FinishSignatureInitBytes_ret(module, patched, finished)
                /\ patched < 0 => arg_dict' = arg_dict /\ map_dict' = map_dict
          /\ FinishSignatureInitBytes(module, EmptyBlob, patched, finished) =>
                /\ regRet' = FinishSignatureInitialization_ret(module, patched, finished)
                /\ patched < 0 => arg_dict' = arg_dict /\ map_dict' = map_dict]_vars

-----------------------------------------------------------------------------
(* feature_import, the order of its steps *)

\* C38: when the feature handler returns a result other than None, that
\* result is returned and neither the original import nor the post-import
\* hook is called; when it returns None, the original import is called
\* exactly once, the hook exactly once and only after a successful
\* original import, and a failing hook makes the call fail without
\* returning the imported module.
C38_ImportOrder ==
    [][\A a \in Activations :
          /\ imp'[a].hooks # "never" =>
                /\ imp'[a].hooks = "once"
                /\ imp'[a].imports = "once"
                /\ imp'[a].module # NullKey
                /\ imp'[a].pc \in {"hook", "idle"}
          /\ (imp[a].pc # "idle" /\ imp'[a].pc = "idle" /\ ~fatal') =>
                IF imp'[a].handled # PyNone
                THEN /\ imp'[a].ret = imp'[a].handled
                     /\ imp'[a].imports = "never"
                     /\ imp'[a].hooks = "never"
                ELSE /\ imp'[a].imports = "once"
                     /\ imp'[a].hooks = (IF imp'[a].module # NullKey THEN "once" ELSE "never")
                     /\ \A post \in HookResults :
                           feature_import_hooked(a, post) =>
                               IF post = NullKey
                               THEN imp'[a].ret = NullKey /\ imp'[a].err = "raised"
                               ELSE imp'[a].ret = imp'[a].module /\ imp'[a].err = "none"]_vars

\* C38 witness: one import was handled by the feature handler, and in the
\* other the hook failed after a successful original import.
C38_Witness ==
    /\ imp["main"].pc = "idle" /\ imp["main"].handled = PyObj("feature")
    /\ imp["main"].ret = PyObj("feature")
    /\ imp["worker"].pc = "idle" /\ imp["worker"].hooks = "once"
    /\ imp["worker"].module = PyObj("PySide6") /\ imp["worker"].ret = NullKey

-----------------------------------------------------------------------------
(* The kind of a function *)

FuncKinds == {<<"function">>, <<"classmethod">>, <<"staticmethod">>, <<"method">>}

\* The kinds the priority rule allows for the function ob.
KindsByPriority(ob) ==
    { kind \in FuncKinds :
        \/ kind = <<"function">> /\ PyModule_Check(ob.cls)
        \/ kind = <<"classmethod">> /\ ~PyModule_Check(ob.cls)
              /\ "METH_CLASS" \in ob.flags
        \/ kind = <<"staticmethod">> /\ ~PyModule_Check(ob.cls)
              /\ "METH_CLASS" \notin ob.flags /\ "METH_STATIC" \in ob.flags
        \/ kind = <<"method">> /\ ~PyModule_Check(ob.cls)
              /\ "METH_CLASS" \notin ob.flags /\ "METH_STATIC" \notin ob.flags }

\* C40: GetSignature_Function selects 'function' for a function of a
\* module whatever its flags, else 'classmethod' with the class-method
\* flag, else 'staticmethod' with the static-method flag, else 'method':
\* the kind it returns for the modifier __func_kind__, and the kind in the
\* key it hands to CreateSignature, is the one kind the rule allows.
C40_KindByPriority ==
    [][/\ \A a \in Activations, ob \in KindObs :
             (GetSignature_Function(a, ob, Magic_func_kind) /\ act'[a].pc = "idle"
                /\ sigRet' # PyNone /\ sigRet' # NullKey) =>
                 \E kind \in FuncKinds :
                     /\ sigRet' = PyStr(kind)
                     /\ KindsByPriority(ob) = {kind}
       /\ \A a \in Activations :
             (act'[a].pc = "create" /\ act'[a].query.fn = "Function") =>
                 \E kind \in FuncKinds :
                     /\ act'[a].key = SignatureKey(kind, act'[a].query.modifier)
                     /\ KindsByPriority(act'[a].query.ob) = {kind}]_vars

\* C40 witness: the kind of a function of W with both flags was returned
\* as 'classmethod', and the signature of a function of the module with
\* both flags is being created under the key 'function'.
C40_Witness ==
    /\ sigRet = PyStr(<<"classmethod">>)
    /\ act["main"].pc = "create"
    /\ act["main"].query.ob = QFunc("mod", <<"d", "T">>, {"METH_CLASS", "METH_STATIC"})
    /\ act["main"].key = PyStr(<<"function">>)

-----------------------------------------------------------------------------
(* get_signature *)

\* The object GetSignature_Function, _TypeMod or _Wrapper is called with
\* for ob, and ob as a query that went on for the name of its class.
QueriedOb(ob) ==
    IF ob.kind \in {"staticmethod", "method_descriptor"} THEN [ob EXCEPT !.kind = "cfunc"]
    ELSE ob

AsItsClass(ob) == [ob EXCEPT !.name = Attr_name(ob.cls)]

\* In this step the call get_signature(ob, modifier) of the activation
\* returns: at once, or when the parser or CreateSignature has returned.
SignatureReturns(ob, modifier) ==
    /\ ~fatal'
    /\ act'["main"].pc = "idle"
    /\ \/ get_signature("main", ob, modifier)
       \/ /\ act["main"].pc # "idle"
          /\ act["main"].query.fn # "none"
          /\ act["main"].query.modifier = modifier
          /\ \/ act["main"].query.ob = QueriedOb(ob)
             \/ /\ ob.kind = "wrapper_descriptor" /\ ob.name = Name_init
                /\ act["main"].query.ob = AsItsClass(ob)

\* After the step the owner of ob has no registered signatures, or its
\* PropsDict has no record under name.
NoRecordAfter(ob, name) ==
    \/ GetTypeKey(ob.cls) \notin DOMAIN arg_dict'
    \/ /\ IsDict(arg_dict', GetTypeKey(ob.cls))
       /\ ~DictHas(arg_dict'[GetTypeKey(ob.cls)].entries, name)

\* The step changes the store at most by the lazy population of the key k.
OnlyPopulates(k) ==
    /\ DOMAIN arg_dict' = DOMAIN arg_dict
    /\ \A k2 \in DOMAIN arg_dict :
          \/ arg_dict'[k2] = arg_dict[k2]
          \/ k2 = k /\ arg_dict[k2].tag # "dict" /\ arg_dict'[k2].tag = "dict"

\* C39 as stated: get_signature returns None without an error for a
\* function written in Python and for an object of no supported kind, and
\* for a supported entity whose owner has no registered signatures or no
\* record under the entity's name it returns None and leaves the store
\* unchanged.
C39_NoneStoreUnchanged ==
    [][\A ob \in SignatureObs, modifier \in {NoAttr, <<"u">>} :
          SignatureReturns(ob, modifier) =>
              /\ (ob.kind = "function" \/ ob.kind \notin SupportedKinds) =>
                    sigRet' = PyNone /\ arg_dict' = arg_dict
              /\ (ob.kind \in SupportedKinds /\ NoRecordAfter(ob, ob.name)) =>
                    sigRet' = PyNone /\ arg_dict' = arg_dict]_vars

\* C39 amended: as stated, but a wrapper descriptor named __init__ is
\* answered None only when there is no record under the name of its class
\* either, and the store may change by the lazy population of the owner's
\* key.
C39_NoneStoreOnlyPopulated ==
    [][\A ob \in SignatureObs, modifier \in {NoAttr, <<"u">>} :
          SignatureReturns(ob, modifier) =>
              /\ (ob.kind = "function" \/ ob.kind \notin SupportedKinds) =>
                    sigRet' = PyNone /\ arg_dict' = arg_dict
              /\ (/\ ob.kind \in SupportedKinds
                  /\ NoRecordAfter(ob, ob.name)
                  /\ (ob.kind = "wrapper_descriptor" /\ ob.name = Name_init) =>
                        NoRecordAfter(ob, Attr_name(ob.cls))) =>
                    sigRet' = PyNone /\ OnlyPopulates(GetTypeKey(ob.cls))]_vars

\* C39 witness: the query for the function z of W, which has no record,
\* has returned None from a PropsDict that the query itself made of the
\* registered strings.
C39_Witness ==
    /\ IsDict(arg_dict, WKey)
    /\ ~DictHas(arg_dict[WKey].entries, <<"z">>)
    /\ ~last[WKey].null /\ last[WKey].src # NoBuild
    /\ sigRet = PyNone
    /\ act["main"].pc = "idle"

====
